---- MODULE Spec2Model ----
(***************************************************************************)
(* politeiavoter: the trickle engine of cmd/politeiavoter.                 *)
(*                                                                         *)
(* The main loop is _voteTrickler (politeiavoter.go:764-861).  The retry   *)
(* loop (retryLoop, retryPush, retryLen, the retry struct) is launched at  *)
(* politeiavoter.go:771 but its source is not among the files; it is       *)
(* modelled from section 4.5 of the specification.                         *)
(*                                                                         *)
(* Channels are unbuffered: a sender sits in a "send..." position until    *)
(* the other loop takes the receive branch of one of its selects; the      *)
(* receive moves both loops.                                               *)
(***************************************************************************)
EXTENDS Integers, Sequences, FiniteSets, TLC

\* ---------------------------------------------------------------- bounds
NumTickets == 3
MaxDelay == 1
\* Complete tuples in the journal directory verifyVote reads, all files
\* together.
MaxRecords == 3
\* Block heights 0..MaxBlocks (and the largest 32-bit height) are tried.
MaxBlocks == 4

\* ------------------------------------------------------------- constants
\* Retry cap of the retry loop (parametric in the specification).
MAX_ATTEMPTS == 2

Tickets == 1..NumTickets
Delays == 0..MaxDelay
NoVote == [Ticket |-> 0, At |-> 0]
NoRetry == [vote |-> 0, attempts |-> 0]

\* Outcomes of one sendVote call (politeiavoter.go:690-713 over makeRequest):
\*   "ok"      receipt with error code 0
\*   "other"   receipt with an application error code other than
\*             VoteErrorVoteStatusInvalid
\*   "invalid" receipt with error code VoteErrorVoteStatusInvalid
\*   "retry"   ErrRetry
\*   "fatal"   any other error
ReceiptCodes == {"ok", "other", "invalid"}
Outcomes == ReceiptCodes \cup {"retry", "fatal"}

VARIABLES
    voteIntervalQ,   \* ctx.voteIntervalQ: FIFO of voteInterval
    retryQ,          \* ctx.retryQ: FIFO of retry items
    ballotResults,   \* ctx.ballotResults
    failedJournal,   \* JSON values of failed.json.<run>, in file order
    successJournal,  \* JSON values of success.json.<run>, in file order
    wctxDone,        \* c.wctx.Done() is closed
    retryWG,         \* ctx.retryWG counter
    mainPc,          \* position of _voteTrickler
    i,               \* loop counter of _voteTrickler
    vote,            \* the voteInterval popped by the main loop
    mainErr,         \* return value of _voteTrickler: "none" until it returns
    retryPc,         \* position of retryLoop
    retryItem,       \* the retry item popped by the retry loop
    terminalFailures,\* tickets evicted at the retry cap
    mainExit,        \* history: the path on which _voteTrickler left its loop
    mainSubmitted,   \* history: tickets the main loop called sendVote for
    casts,           \* history: number of sendVote calls per ticket
    failedAttempts,  \* history: number of ErrRetry answers per ticket
    signals,         \* history: control signals whose send has completed
    workJournal,     \* JSON values of work.json.<run>, in file order
    cast,            \* verifyVote: tickets of the server's vote results
    verifyPc,        \* position of verifyVote
    failedMap,       \* verifyVote: failed, [ticket] -> tuples
    successMap,      \* verifyVote: success, [ticket] -> tuples
    workMap,         \* verifyVote: work, [time] -> tuples
    report,          \* verifyVote: what it printed
    requestPc,       \* position of sendVote
    httpResponse,    \* sendVote: what the request met on its way
    sendVoteReply,   \* sendVote: what makeRequest and sendVote returned
    votePc,          \* position of _vote
    rr,              \* _vote: rr.Votes, the votes the server lists as cast
    ctres,           \* _vote: ctres.TicketAddresses
    wallet,          \* what the wallet answers about each ticket
    eligible,        \* _vote: eligible
    smr,             \* _vote: smr.Replies
    cfgTrickle,      \* c.cfg.Trickle
    cv,              \* _vote: cv.Votes
    schedule,        \* the voteIntervals calculateTrickle produced
    voteErr,         \* return value of _vote: "none" until it returns
    blocks,          \* vs.EndBlockHeight, bestBlock, c.cfg.blocksPerHour
    voteDuration,    \* c.cfg.voteDuration
    elapsed          \* time the main loop has waited for the popped vote

vars == <<voteIntervalQ, retryQ, ballotResults, failedJournal, successJournal,
          wctxDone, retryWG, mainPc, i, vote, mainErr, retryPc, retryItem,
          terminalFailures, mainExit, mainSubmitted, casts, failedAttempts,
          signals, workJournal, cast, verifyPc, failedMap, successMap,
          workMap, report, requestPc, httpResponse, sendVoteReply, votePc, rr,
          ctres, wallet, eligible, smr, cfgTrickle, cv, schedule, voteErr,
          blocks, voteDuration, elapsed>>

\* The state of the handlers that run outside the trickle engine and the
\* verifier.
requestVars == <<requestPc, httpResponse, sendVoteReply>>
eligibleVars == <<rr, ctres, wallet, eligible>>
signVars == <<smr, cfgTrickle, cv>>
durationVars == <<blocks, voteDuration>>
prepVars ==
    <<requestVars, votePc, eligibleVars, signVars, schedule, voteErr,
      durationVars>>
verifyVars ==
    <<workJournal, cast, verifyPc, failedMap, successMap, workMap, report>>
queueVars == <<voteIntervalQ, retryQ>>
journalVars == <<failedJournal, successJournal>>
mainVars == <<mainPc, i, vote, mainErr, mainExit, mainSubmitted, elapsed>>
retryVars == <<retryPc, retryItem, terminalFailures>>

\* ------------------------------------------------------------- journals
\* A journal file is the sequence of JSON values written to it.
JSONTime == [k |-> "time", ticket |-> 0, code |-> "-"]
CastBallot(t) == [k |-> "ballot", ticket |-> t, code |-> "-"]
ErrRetry == [k |-> "ErrRetry", ticket |-> 0, code |-> "-"]
CastVoteReply(t, c) == [k |-> "receipt", ticket |-> t, code |-> c]

\* The JSON array of voteInterval the work journal holds: the tickets of the
\* schedule, in order.
VoteIntervals(ts) == [k |-> "votes", tickets |-> ts]

\* A JSON value cut short by a crash in the middle of a write: it can only be
\* the last value of a file.
Partial == [k |-> "partial", ticket |-> 0, code |-> "-"]

\* 812: the values of one jsonLog(failedJournal, token, b, e) call.
FailedTuple(t) == <<JSONTime, CastBallot(t), ErrRetry>>

\* 840: the values of one jsonLog(successJournal, token, vr) call.
SuccessTuple(t) == <<JSONTime, CastVoteReply(t, "ok")>>

\* The values of the jsonLog(workJournal, ...) call that records a schedule.
WorkTuple(ts) == <<JSONTime, VoteIntervals(ts)>>

jsonLogTruncating(journal, work, n) == SubSeq(<<JSONTime>> \o work, 1, n)

\* jsonLog opens the file in append mode, encodes the time marker and then
\* each value of work.  n is the number of values encoded before the call
\* returned: Len(work) + 1 when it returned nil, fewer when it returned an
\* error (0: the open or the first Encode failed).
jsonLog(journal, work, n) == journal \o SubSeq(<<JSONTime>> \o work, 1, n)

jsonLogErrIgnored(work, n) == TRUE

\* jsonLog returned nil: every value was encoded.
jsonLogOk(work, n) == n = Len(work) + 1

\* ------------------------------------------------------------- queues
voteIntervalPush(q, v) == Append(q, v)

voteIntervalBack(q) == IF q = <<>> THEN NoVote ELSE q[Len(q)]

voteIntervalFront(q) == IF q = <<>> THEN NoVote ELSE Head(q)

voteIntervalRemoveNothing(q) == q

voteIntervalRemove(q) == IF q = <<>> THEN q ELSE Tail(q)

voteIntervalLen(q) == Len(q)

retryPush(q, r) == Append(q, r)

retryLen(q) == Len(q)

TicketsOf(q) == {q[x].Ticket : x \in DOMAIN q}

RetryTicketsOf(q) == {q[x].vote : x \in DOMAIN q}

\* ------------------------------------------------------------ decoders
\* d.Decode(&v) on the value at pos of a file, for a struct target
\* (wantArray = FALSE) or a slice target (wantArray = TRUE):
\*   "EOF"            no value is left (io.EOF)
\*   "unexpectedEOF"  the value is cut short (io.ErrUnexpectedEOF)
\*   "type"           a JSON array for a struct or a JSON object for a slice
\*                    (json.UnmarshalTypeError)
\*   "nil"            decoded; an object whose keys the struct does not have
\*                    decodes without error and leaves the fields zero
Decode(file, pos, wantArray) ==
    IF pos > Len(file) THEN "EOF"
    ELSE IF file[pos].k = "partial" THEN "unexpectedEOF"
    ELSE IF (file[pos].k = "votes") # wantArray THEN "type"
    ELSE "nil"

\* The Time string decoded from a value: "" when the object has no time key.
TimeOf(v) == IF v.k = "time" THEN "time" ELSE ""

\* The ticket of the single vote of a decoded CastBallot, or of a decoded
\* CastVoteReply: 0 stands for the zero value.
BallotTicketOf(v) == IF v.k = "ballot" THEN v.ticket ELSE 0
ReplyTicketOf(v) == IF v.k = "receipt" THEN v.ticket ELSE 0

\* The maps verifyVote hands to the decoders: a key is present when its list
\* is not empty.  Every time marker of the model carries the same time.
WorkKeys == {"time"}
NoRecords == [t \in Tickets |-> <<>>]
NoWork == [t \in WorkKeys |-> <<>>]
NoReport ==
    [total |-> 0, successful |-> 0, unsuccessful |-> 0,
     completedNotRecorded |-> 0, noVote |-> 0, printedFailed |-> {},
     decodeFailed |-> "nil", decodeSuccess |-> "nil", decodeWork |-> "nil",
     crossCheck |-> [t \in Tickets |-> "-"]]

gracefulAnywhere(state, err) == err = "EOF"

\* 1189-1193, 1261-1265, 1320-1324: "Only expect EOF in state 0".
graceful(state, err) == state = 0 /\ err = "EOF"

recordTupleReplacing(map, key, tuple) == [map EXCEPT ![key] = <<tuple>>]

\* 1228, 1285, 1343: m[key] = append(m[key], *tuple).
recordTuple(map, key, tuple) == [map EXCEPT ![key] = Append(@, tuple)]

\* 1184-1235: the state machine of decodeFailed from position pos on.
RECURSIVE decodeFailedLoop(_, _, _, _, _)
decodeFailedLoop(file, pos, state, ticket, m) ==
    LET err == Decode(file, pos, FALSE) IN
    IF graceful(state, err) THEN [map |-> m, err |-> "nil"]
    ELSE IF state = 0 THEN
        IF err # "nil" THEN [map |-> m, err |-> "decode time"]
        ELSE decodeFailedLoop(file, pos + 1, 1, 0, m)
    ELSE IF state = 1 THEN
        IF err # "nil" THEN [map |-> m, err |-> "decode cast votes"]
        ELSE IF file[pos].k # "ballot"
        THEN [map |-> m, err |-> "decode invalid length"]
        ELSE decodeFailedLoop(file, pos + 1, 2, BallotTicketOf(file[pos]), m)
    ELSE
        IF err # "nil" THEN [map |-> m, err |-> "decode error retry"]
        ELSE IF ticket = 0
        THEN [map |-> m, err |-> "decode no ticket found"]
        ELSE decodeFailedLoop(file, pos + 1, 0, 0,
                 recordTuple(m, ticket, SubSeq(file, pos - 2, pos)))

\* 1171-1239.
decodeFailed(file, m) == decodeFailedLoop(file, 1, 0, 0, m)

\* 1256-1291: the state machine of decodeSuccess from position pos on.
RECURSIVE decodeSuccessLoop(_, _, _, _)
decodeSuccessLoop(file, pos, state, m) ==
    LET err == Decode(file, pos, FALSE) IN
    IF graceful(state, err) THEN [map |-> m, err |-> "nil"]
    ELSE IF state = 0 THEN
        IF err # "nil" THEN [map |-> m, err |-> "decode time"]
        ELSE decodeSuccessLoop(file, pos + 1, 1, m)
    ELSE
        IF err # "nil" THEN [map |-> m, err |-> "decode cast votes"]
        ELSE IF ReplyTicketOf(file[pos]) = 0
        THEN [map |-> m, err |-> "decode no ticket found"]
        ELSE decodeSuccessLoop(file, pos + 1, 0,
                 recordTuple(m, ReplyTicketOf(file[pos]),
                             SubSeq(file, pos - 1, pos)))

\* 1246-1295.
decodeSuccess(file, m) == decodeSuccessLoop(file, 1, 0, m)

\* 1315-1350: the state machine of decodeWork from position pos on.
RECURSIVE decodeWorkLoop(_, _, _, _, _)
decodeWorkLoop(file, pos, state, t, m) ==
    LET err == Decode(file, pos, state = 1) IN
    IF graceful(state, err) THEN [map |-> m, err |-> "nil"]
    ELSE IF state = 0 THEN
        IF err # "nil" THEN [map |-> m, err |-> "decode time"]
        ELSE decodeWorkLoop(file, pos + 1, 1, TimeOf(file[pos]), m)
    ELSE
        IF err # "nil" THEN [map |-> m, err |-> "decode votes"]
        ELSE IF t = "" THEN [map |-> m, err |-> "decode no time found"]
        ELSE decodeWorkLoop(file, pos + 1, 0, "",
                 recordTuple(m, t, SubSeq(file, pos - 1, pos)))

\* 1302-1354.
decodeWork(file, m) == decodeWorkLoop(file, 1, 0, "", m)

\* ------------------------------------------------------- other handlers
NoResponse ==
    [requestOk |-> TRUE, transport |-> "ok", status |-> 0,
     body |-> [json |-> FALSE, errorCode |-> 0, receipts |-> <<>>]]
NoReply ==
    [err |-> "nil", code |-> 0,
     body |-> [json |-> FALSE, errorCode |-> 0, receipts |-> <<>>],
     outcome |-> "none"]

\* No handler outside the engine and the verifier is running.
RequestIdle ==
    /\ requestPc = "idle"
    /\ httpResponse = NoResponse
    /\ sendVoteReply = NoReply

NoAccount == [err |-> TRUE, AccountNumber |-> 0]
NoBlocks ==
    [EndBlockHeight |-> [hi |-> 0, lo |-> 0],
     bestBlock |-> [hi |-> 0, lo |-> 0],
     blocksPerHour |-> [hi |-> 0, lo |-> 0]]
NoDuration == [hi |-> 0, lo |-> 0]

EligibleIdle ==
    /\ rr = [t \in Tickets |-> "none"]
    /\ ctres = <<>>
    /\ wallet = [t \in Tickets |-> NoAccount]
    /\ eligible = <<>>

SignIdle ==
    /\ smr = <<>>
    /\ cfgTrickle = FALSE
    /\ cv = <<>>

DurationIdle ==
    /\ blocks = NoBlocks
    /\ voteDuration = NoDuration

VoteIdle ==
    /\ votePc = "idle"
    /\ EligibleIdle
    /\ SignIdle
    /\ schedule = <<>>
    /\ voteErr = "none"
    /\ DurationIdle

PrepIdle ==
    /\ RequestIdle
    /\ VoteIdle

\* ------------------------------------------------------------- schedule
\* calculateTrickle leaves one voteInterval per eligible ticket in the
\* interval queue; its delays are differences of sorted samples, so each is
\* >= 0 and may be 0.
Schedules ==
    {s \in [1..NumTickets -> [Ticket : Tickets, At : Delays]] :
        \A x \in 1..NumTickets : s[x].Ticket = x}

Init ==
    /\ voteIntervalQ \in Schedules
    /\ retryQ = <<>>
    /\ ballotResults = <<>>
    /\ failedJournal = <<>>
    /\ successJournal = <<>>
    /\ wctxDone = FALSE
    /\ retryWG = 0
    /\ mainPc = "start"
    /\ i = 0
    /\ vote = NoVote
    /\ mainErr = "none"
    /\ retryPc = "init"
    /\ retryItem = NoRetry
    /\ terminalFailures = {}
    /\ mainExit = "none"
    /\ mainSubmitted = {}
    /\ elapsed = 0
    /\ casts = [t \in Tickets |-> 0]
    /\ failedAttempts = [t \in Tickets |-> 0]
    /\ signals = {}
    /\ workJournal =
         WorkTuple([x \in 1..Len(voteIntervalQ) |-> voteIntervalQ[x].Ticket])
    /\ cast = {}
    /\ verifyPc = "idle"
    /\ failedMap = NoRecords
    /\ successMap = NoRecords
    /\ workMap = NoWork
    /\ report = NoReport
    /\ PrepIdle

\* The surrounding process cancels the root context.
Cancel ==
    /\ ~wctxDone
    /\ wctxDone' = TRUE
    /\ UNCHANGED <<queueVars, ballotResults, journalVars, retryWG, mainVars,
                   retryVars, casts, failedAttempts, signals>>
    /\ UNCHANGED verifyVars
    /\ UNCHANGED prepVars

\* ------------------------------------------------ _voteTrickler, main loop
\* 766-771: size the results, retryWG.Add(1), go c.retryLoop().
MainStart ==
    /\ mainPc = "start"
    /\ ballotResults' = <<>>
    /\ retryWG' = retryWG + 1
    /\ retryPc' = "idle"
    /\ mainPc' = "pop"
    /\ UNCHANGED <<queueVars, journalVars, wctxDone, i, vote, mainErr,
                   retryItem, terminalFailures, mainExit, mainSubmitted,
                   casts, failedAttempts, signals>>
    /\ UNCHANGED verifyVars
    /\ UNCHANGED prepVars
    /\ UNCHANGED elapsed

\* 780-783: the first vote is fired without a delay.
AfterPop(n) == IF n = 0 THEN "vote" ELSE "wait"

\* 774-783: pop; nil breaks out of the loop to the mainLoopDone send.
MainPop ==
    /\ mainPc = "pop"
    /\ LET v == voteIntervalFront(voteIntervalQ) IN
        /\ voteIntervalQ' = voteIntervalRemove(voteIntervalQ)
        /\ vote' = v
        /\ mainPc' = IF v = NoVote THEN "sendDone" ELSE AfterPop(i)
    /\ UNCHANGED <<retryQ, ballotResults, journalVars, wctxDone, retryWG, i,
                   mainErr, retryVars, mainExit, mainSubmitted, casts,
                   failedAttempts, signals>>
    /\ UNCHANGED verifyVars
    /\ UNCHANGED prepVars
    /\ elapsed' = 0

\* 789-790: the interval queue after the wctx.Done() branch (goto exit).
onCancel(q, v) == q

onRetryLoopForceExitDropped(q, v) == q

\* 792-798: the interval queue after the retryLoopForceExit branch.
onRetryLoopForceExit(q, v) == voteIntervalPush(q, v)

\* 788-790: select, case <-c.wctx.Done().
MainWaitCancelled ==
    /\ mainPc = "wait"
    /\ wctxDone
    /\ voteIntervalQ' = onCancel(voteIntervalQ, vote)
    /\ vote' = NoVote
    /\ mainPc' = "returned"
    /\ mainErr' = "nil"
    /\ mainExit' = "cancel"
    /\ UNCHANGED <<retryQ, ballotResults, journalVars, wctxDone, retryWG, i,
                   retryVars, mainSubmitted, casts, failedAttempts, signals>>
    /\ UNCHANGED verifyVars
    /\ UNCHANGED prepVars
    /\ elapsed' = 0

timeAfterAtOnce(at) == 0

\* 791: time.After(vote.At) is ready once vote.At has passed: the time the
\* select has blocked when it takes the timer branch.
timeAfter(at) == at

\* 791: select, case <-time.After(vote.At).  A select takes the first branch
\* that becomes ready: a timer of a positive delay is not ready while another
\* branch already is; a timer of delay 0 races with the other branches.
MainWaitTimer ==
    /\ mainPc = "wait"
    /\ vote.At = 0 \/ (~wctxDone /\ retryPc # "sendForceExit")
    /\ mainPc' = "vote"
    /\ UNCHANGED <<queueVars, ballotResults, journalVars, wctxDone, retryWG,
                   i, vote, mainErr, retryVars, mainExit, mainSubmitted,
                   casts, failedAttempts, signals>>
    /\ UNCHANGED verifyVars
    /\ UNCHANGED prepVars
    /\ elapsed' = elapsed + timeAfter(vote.At)

\* 792-798: select, case <-c.retryLoopForceExit; completes the retry loop's
\* send, after which the retry loop returns.
MainWaitForceExit ==
    /\ mainPc = "wait"
    /\ retryPc = "sendForceExit"
    /\ voteIntervalQ' = onRetryLoopForceExit(voteIntervalQ, vote)
    /\ vote' = NoVote
    /\ mainPc' = "returned"
    /\ mainErr' = "nil"
    /\ mainExit' = "retryLoopForceExit"
    /\ retryPc' = "exiting"
    /\ signals' = signals \cup {"retryLoopForceExit"}
    /\ UNCHANGED <<retryQ, ballotResults, journalVars, wctxDone, retryWG, i,
                   retryItem, terminalFailures, mainSubmitted, casts,
                   failedAttempts>>
    /\ UNCHANGED verifyVars
    /\ UNCHANGED prepVars
    /\ elapsed' = 0

\* 801-807: the CastBallot request goes out.
MainSend ==
    /\ mainPc = "vote"
    /\ mainPc' = "inflight"
    /\ mainSubmitted' = mainSubmitted \cup {vote.Ticket}
    /\ casts' = [casts EXCEPT ![vote.Ticket] = @ + 1]
    /\ UNCHANGED <<queueVars, ballotResults, journalVars, wctxDone, retryWG,
                   i, vote, mainErr, retryVars, mainExit, failedAttempts,
                   signals>>
    /\ UNCHANGED verifyVars
    /\ UNCHANGED prepVars
    /\ UNCHANGED elapsed

newRetryOffByOne(v) == [vote |-> v.Ticket, attempts |-> 1]

\* 816: &retry{vote: vote.Vote}
newRetry(v) == [vote |-> v.Ticket, attempts |-> 0]

afterErrRetryDropped(q, v) == q

afterErrRetryTwice(q, v) == Append(Append(q, [vote |-> v.Ticket, attempts |-> 0]), [vote |-> v.Ticket, attempts |-> 0])

\* 816: c.retryPush(&retry{vote: vote.Vote})
afterErrRetry(q, v) == retryPush(q, newRetry(v))

\* 846-847: i++ and the next iteration.
MainNextVote ==
    /\ mainPc' = "pop"
    /\ i' = i + 1
    /\ vote' = NoVote
    /\ UNCHANGED <<mainErr, mainExit>>

MainSwallowsError(path) == MainNextVote

\* A return with an error from inside the loop (814, 819, 832, 842).
MainReturnsError(path) ==
    /\ mainPc' = "returned"
    /\ mainErr' = "error"
    /\ mainExit' = path
    /\ vote' = NoVote
    /\ UNCHANGED i

appendResultSkipped(results, vr) == results

\* 823-825: c.ballotResults = append(c.ballotResults, *vr) under the lock.
appendResult(results, vr) == Append(results, vr)

afterInvalidReceiptContinue == "pop"

\* 834-838: after the failed-journal append, the main loop signals
\* mainLoopForceExit and leaves the loop.
afterInvalidReceipt == "sendForceExit"

\* 808-816: sendVote returned an ErrRetry.
MainReplyRetry(n) ==
    /\ mainPc = "inflight"
    /\ failedJournal' =
         jsonLog(failedJournal, <<CastBallot(vote.Ticket), ErrRetry>>, n)
    /\ failedAttempts' = [failedAttempts EXCEPT ![vote.Ticket] = @ + 1]
    /\ IF jsonLogOk(<<CastBallot(vote.Ticket), ErrRetry>>, n)
       THEN /\ retryQ' = afterErrRetry(retryQ, vote)
            /\ MainNextVote
       ELSE /\ retryQ' = retryQ
            /\ MainReturnsError("journal")
    /\ UNCHANGED <<voteIntervalQ, ballotResults, successJournal, wctxDone,
                   retryWG, retryVars, mainSubmitted, casts, signals>>
    /\ UNCHANGED verifyVars
    /\ UNCHANGED prepVars
    /\ elapsed' = 0

\* 817-820: sendVote returned another error.
MainReplyFatal ==
    /\ mainPc = "inflight"
    /\ MainReturnsError("fatal")
    /\ UNCHANGED <<queueVars, ballotResults, journalVars, wctxDone, retryWG,
                   retryVars, mainSubmitted, casts, failedAttempts, signals>>
    /\ UNCHANGED verifyVars
    /\ UNCHANGED prepVars
    /\ elapsed' = 0

\* 821-838: a receipt with VoteErrorVoteStatusInvalid.
MainReplyInvalid(n) ==
    /\ mainPc = "inflight"
    /\ LET vr == CastVoteReply(vote.Ticket, "invalid") IN
        /\ ballotResults' = appendResult(ballotResults, vr)
        /\ failedJournal' = jsonLog(failedJournal, <<vr>>, n)
        /\ IF jsonLogOk(<<vr>>, n)
           THEN /\ mainPc' = afterInvalidReceipt
                /\ vote' = NoVote
                /\ UNCHANGED <<i, mainErr, mainExit>>
           ELSE MainReturnsError("journal")
    /\ UNCHANGED <<queueVars, successJournal, wctxDone, retryWG, retryVars,
                   mainSubmitted, casts, failedAttempts, signals>>
    /\ UNCHANGED verifyVars
    /\ UNCHANGED prepVars
    /\ elapsed' = 0

\* 821-826, 840-847: a receipt with any other error code.
MainReplyReceipt(c, n) ==
    /\ mainPc = "inflight"
    /\ c # "invalid"
    /\ LET vr == CastVoteReply(vote.Ticket, c) IN
        /\ ballotResults' = appendResult(ballotResults, vr)
        /\ successJournal' = jsonLog(successJournal, <<vr>>, n)
        /\ IF jsonLogOk(<<vr>>, n)
           THEN MainNextVote
           ELSE MainReturnsError("journal")
    /\ UNCHANGED <<queueVars, failedJournal, wctxDone, retryWG, retryVars,
                   mainSubmitted, casts, failedAttempts, signals>>
    /\ UNCHANGED verifyVars
    /\ UNCHANGED prepVars
    /\ elapsed' = 0

afterMainLoopForceExitContinue == "pop"

\* 837: goto exit once the mainLoopForceExit send has completed.
afterMainLoopForceExit == "returned"

retryWGWaitSkipped(wg) == TRUE

\* 856: c.retryWG.Wait()
retryWGWait(wg) == wg = 0

\* 856-860: the retry loop has exited; return nil.
MainWaitRetry ==
    /\ mainPc = "waitRetry"
    /\ retryWGWait(retryWG)
    /\ mainPc' = "returned"
    /\ mainErr' = "nil"
    /\ mainExit' = "normal"
    /\ UNCHANGED <<queueVars, ballotResults, journalVars, wctxDone, retryWG,
                   i, vote, retryVars, mainSubmitted, casts, failedAttempts,
                   signals>>
    /\ UNCHANGED verifyVars
    /\ UNCHANGED prepVars
    /\ UNCHANGED elapsed

\* ------------------------------------------------------------ retry loop
\* Section 4.5 of the specification.  The loop is idle between items; it
\* waits on a select while its queue is empty and while it sleeps a backoff.

\* An item that failed retryably again: attempts is incremented.
retryAgain(r) == [r EXCEPT !.attempts = @ + 1]

\* The item is re-pushed unless it has reached the cap.
retryCapReached(r) == r.attempts = MAX_ATTEMPTS

retryMayLeaveAnyway(q) == TRUE

\* The retry loop leaves on mainLoopDone only with an empty queue.
retryMayLeave(q) == q = <<>>

\* Step 1: queue empty, mainLoopDone arrives: the main loop's send at 853
\* completes and the retry loop leaves cleanly.
MainLoopDone ==
    /\ retryPc = "idle"
    /\ retryMayLeave(retryQ)
    /\ mainPc = "sendDone"
    /\ retryPc' = "exiting"
    /\ mainPc' = "waitRetry"
    /\ signals' = signals \cup {"mainLoopDone"}
    /\ UNCHANGED <<queueVars, ballotResults, journalVars, wctxDone, retryWG,
                   i, vote, mainErr, retryItem, terminalFailures, mainExit,
                   mainSubmitted, casts, failedAttempts>>
    /\ UNCHANGED verifyVars
    /\ UNCHANGED prepVars
    /\ UNCHANGED elapsed

\* Step 1: queue empty, cancellation.
RetryIdleCancelled ==
    /\ retryPc = "idle"
    /\ retryQ = <<>>
    /\ wctxDone
    /\ retryPc' = "exiting"
    /\ UNCHANGED <<queueVars, ballotResults, journalVars, wctxDone, retryWG,
                   mainVars, retryItem, terminalFailures, casts,
                   failedAttempts, signals>>
    /\ UNCHANGED verifyVars
    /\ UNCHANGED prepVars

\* The main loop's send at 836 completes: the retry loop observes the
\* engine-wide VoteStatusInvalid while idle or while sleeping its backoff,
\* and exits; the item it holds is dropped.
MainLoopForceExit ==
    /\ mainPc = "sendForceExit"
    /\ \/ retryPc = "idle" /\ retryQ = <<>>
       \/ retryPc = "sleep"
    /\ retryPc' = "exiting"
    /\ retryItem' = NoRetry
    /\ mainPc' = afterMainLoopForceExit
    /\ mainErr' = IF afterMainLoopForceExit = "returned" THEN "nil" ELSE mainErr
    /\ mainExit' = "invalid"
    /\ signals' = signals \cup {"mainLoopForceExit"}
    /\ UNCHANGED <<queueVars, ballotResults, journalVars, wctxDone, retryWG,
                   i, vote, terminalFailures, mainSubmitted, casts,
                   failedAttempts>>
    /\ UNCHANGED verifyVars
    /\ UNCHANGED prepVars
    /\ UNCHANGED elapsed

\* Step 2: pop the head item.
RetryPop ==
    /\ retryPc = "idle"
    /\ retryQ # <<>>
    /\ retryItem' = Head(retryQ)
    /\ retryQ' = Tail(retryQ)
    /\ retryPc' = "sleep"
    /\ UNCHANGED <<voteIntervalQ, ballotResults, journalVars, wctxDone,
                   retryWG, mainVars, terminalFailures, casts, failedAttempts,
                   signals>>
    /\ UNCHANGED verifyVars
    /\ UNCHANGED prepVars

\* Step 3: cancellation interrupts the sleep; the item is dropped.
RetrySleepCancelled ==
    /\ retryPc = "sleep"
    /\ wctxDone
    /\ retryPc' = "exiting"
    /\ retryItem' = NoRetry
    /\ UNCHANGED <<queueVars, ballotResults, journalVars, wctxDone, retryWG,
                   mainVars, terminalFailures, casts, failedAttempts, signals>>
    /\ UNCHANGED verifyVars
    /\ UNCHANGED prepVars

\* Steps 3-4: the backoff (always positive) elapses before any other branch
\* is ready; the CastBallot request goes out.
RetrySend ==
    /\ retryPc = "sleep"
    /\ ~wctxDone
    /\ mainPc # "sendForceExit"
    /\ retryPc' = "inflight"
    /\ casts' = [casts EXCEPT ![retryItem.vote] = @ + 1]
    /\ UNCHANGED <<queueVars, ballotResults, journalVars, wctxDone, retryWG,
                   mainVars, retryItem, terminalFailures, failedAttempts,
                   signals>>
    /\ UNCHANGED verifyVars
    /\ UNCHANGED prepVars

\* Step 4: retryable failure; one failed-journal tuple per attempt.
RetryReplyRetry ==
    /\ retryPc = "inflight"
    /\ failedJournal' =
         jsonLog(failedJournal, <<CastBallot(retryItem.vote), ErrRetry>>, 3)
    /\ failedAttempts' = [failedAttempts EXCEPT ![retryItem.vote] = @ + 1]
    /\ LET r == retryAgain(retryItem) IN
         IF retryCapReached(r)
         THEN /\ terminalFailures' = terminalFailures \cup {r.vote}
              /\ retryQ' = retryQ
         ELSE /\ retryQ' = retryPush(retryQ, r)
              /\ terminalFailures' = terminalFailures
    /\ retryItem' = NoRetry
    /\ retryPc' = "idle"
    /\ UNCHANGED <<voteIntervalQ, ballotResults, successJournal, wctxDone,
                   retryWG, mainVars, casts, signals>>
    /\ UNCHANGED verifyVars
    /\ UNCHANGED prepVars

\* Step 4: a receipt other than VoteStatusInvalid.
RetryReplyReceipt(c) ==
    /\ retryPc = "inflight"
    /\ c # "invalid"
    /\ LET vr == CastVoteReply(retryItem.vote, c) IN
        /\ ballotResults' = Append(ballotResults, vr)
        /\ successJournal' = jsonLog(successJournal, <<vr>>, 2)
    /\ retryItem' = NoRetry
    /\ retryPc' = "idle"
    /\ UNCHANGED <<queueVars, failedJournal, wctxDone, retryWG, mainVars,
                   terminalFailures, casts, failedAttempts, signals>>
    /\ UNCHANGED verifyVars
    /\ UNCHANGED prepVars

\* Steps 4-5: VoteStatusInvalid is engine-terminal; the retry loop goes to
\* signal retryLoopForceExit.
RetryReplyInvalid ==
    /\ retryPc = "inflight"
    /\ LET vr == CastVoteReply(retryItem.vote, "invalid") IN
        /\ ballotResults' = Append(ballotResults, vr)
        /\ failedJournal' = jsonLog(failedJournal, <<vr>>, 2)
    /\ retryItem' = NoRetry
    /\ retryPc' = "sendForceExit"
    /\ UNCHANGED <<queueVars, successJournal, wctxDone, retryWG, mainVars,
                   terminalFailures, casts, failedAttempts, signals>>
    /\ UNCHANGED verifyVars
    /\ UNCHANGED prepVars

\* The retry loop returns; its deferred retryWG.Done() runs.
RetryExit ==
    /\ retryPc = "exiting"
    /\ retryPc' = "exited"
    /\ retryWG' = retryWG - 1
    /\ UNCHANGED <<queueVars, ballotResults, journalVars, wctxDone, mainVars,
                   retryItem, terminalFailures, casts, failedAttempts,
                   signals>>
    /\ UNCHANGED verifyVars
    /\ UNCHANGED prepVars

\* ---------------------------------------------------------- specification
MainStep ==
    \/ MainStart
    \/ MainPop
    \/ MainWaitCancelled
    \/ MainWaitTimer
    \/ MainWaitForceExit
    \/ MainSend
    \/ \E n \in 0..3 : MainReplyRetry(n)
    \/ MainReplyFatal
    \/ \E n \in 0..2 : MainReplyInvalid(n)
    \/ \E c \in ReceiptCodes, n \in 0..2 : MainReplyReceipt(c, n)
    \/ MainWaitRetry

RetryStep ==
    \/ MainLoopDone
    \/ MainLoopForceExit
    \/ RetryIdleCancelled
    \/ RetryPop
    \/ RetrySleepCancelled
    \/ RetrySend
    \/ RetryReplyRetry
    \/ \E c \in ReceiptCodes : RetryReplyReceipt(c)
    \/ RetryReplyInvalid
    \/ RetryExit

Next == Cancel \/ MainStep \/ RetryStep

Spec == Init /\ [][Next]_vars

\* ------------------------------------------------------------ verifyVote
\* 1493-1508: the tickets map, every ticket of every work tuple.
workTickets(w) ==
    UNION {UNION {{w[key][x][2].tickets[y] :
                      y \in DOMAIN w[key][x][2].tickets} :
                  x \in DOMAIN w[key]} :
              key \in WorkKeys}

\* 1509-1525: the voteStat of a work ticket.
voteStat(ticket, f, s) ==
    [ticket |-> ticket,
     retries |-> Len(f[ticket]),
     success |-> Len(s[ticket]),
     failed |-> IF s[ticket] = <<>> THEN 1 ELSE 0]

\* 1522-1525: failedVotes holds the work tickets without a success record.
failedVotes(tickets, f, s) ==
    {voteStat(t, f, s) : t \in {u \in tickets : s[u] = <<>>}}

\* 1542-1546: no failed record, and the server has the vote.
isCompletedNotRecorded(v, c) == v.retries = 0 /\ v.ticket \in c

\* 1542-1548: no failed record, and the server does not have the vote.
isNotAttempted(v, c) == v.retries = 0 /\ v.ticket \notin c

\* 1550-1554: printed as FAILED and counted in failedVote.
isFailedVote(v, c) == ~isCompletedNotRecorded(v, c) /\ v.failed # 0

RECURSIVE RecordsUpTo(_, _)
RecordsUpTo(m, n) == IF n = 0 THEN 0 ELSE Len(m[n]) + RecordsUpTo(m, n - 1)

successfulVotesPerRecord(s, completedNotRecorded) ==
    RecordsUpTo(s, NumTickets) + completedNotRecorded

\* 1600-1601: len(success) + completedNotRecorded.
successfulVotes(s, completedNotRecorded) ==
    Cardinality({t \in Tickets : s[t] # <<>>}) + completedNotRecorded

\* 1576-1591: what the cross-check prints for a work ticket; failedVotes is
\* the map filled at 1522-1525.
\*   "impossible"  pi vote succeeded and failed, impossible condition
\*   "failed"      pi vote failed
\*   "not seen"    pi vote not seen
\*   "nothing"     no line
crossCheck(ticket, fv, s, c) ==
    LET successFound == s[ticket] # <<>>
        failedFound == \E v \in fv : v.ticket = ticket
    IN  IF successFound /\ failedFound THEN "impossible"
        ELSE IF ~successFound /\ failedFound
        THEN IF ticket \notin c THEN "failed" ELSE "nothing"
        ELSE IF successFound /\ ~failedFound THEN "nothing"
        ELSE "not seen"

\* 1482-1607: the statistics and the report, from the decoded maps.
ReportOf(tickets, f, s, c, errFailed, errSuccess, errWork) ==
    LET fv == failedVotes(tickets, f, s)
        cnr == Cardinality({v \in fv : isCompletedNotRecorded(v, c)})
        printed == {v.ticket : v \in {u \in fv : isFailedVote(u, c)}}
    IN  [total |-> Cardinality(tickets),
         successful |-> successfulVotes(s, cnr),
         unsuccessful |-> Cardinality(printed),
         completedNotRecorded |-> cnr,
         noVote |-> Cardinality({v \in fv : isNotAttempted(v, c)}),
         printedFailed |-> printed,
         decodeFailed |-> errFailed,
         decodeSuccess |-> errSuccess,
         decodeWork |-> errWork,
         crossCheck |->
             [t \in Tickets |->
                 IF t \in tickets THEN crossCheck(t, fv, s, c) ELSE "-"]]

\* 1437-1610, for a finished vote whose results the server returned: the
\* three journals are decoded, a decode error is printed and the next file
\* is taken, then the statistics are counted and the report is printed.
VerifyVote ==
    /\ verifyPc = "start"
    /\ LET df == decodeFailed(failedJournal, NoRecords)
           ds == decodeSuccess(successJournal, NoRecords)
           dw == decodeWork(workJournal, NoWork)
       IN  /\ failedMap' = df.map
           /\ successMap' = ds.map
           /\ workMap' = dw.map
           /\ report' = ReportOf(workTickets(dw.map), df.map, ds.map, cast,
                                 df.err, ds.err, dw.err)
    /\ verifyPc' = "done"
    /\ UNCHANGED <<queueVars, ballotResults, journalVars, wctxDone, retryWG,
                   mainVars, retryVars, casts, failedAttempts, signals,
                   workJournal, cast>>
    /\ UNCHANGED prepVars

\* The journal directories verifyVote is run on: at most MaxRecords complete
\* tuples, the tickets of each file in ascending order, and at most one file
\* cut short by a crash in the middle of a further tuple.
SortedTickets(n) ==
    {s \in [1..n -> Tickets] : \A x \in 1..n - 1 : s[x] <= s[x + 1]}

Flatten(tuples, size) ==
    [x \in 1..Len(tuples) * size |->
        tuples[((x - 1) \div size) + 1][((x - 1) % size) + 1]]

FailedFile(ts) == Flatten([x \in DOMAIN ts |-> FailedTuple(ts[x])], 3)
SuccessFile(ts) == Flatten([x \in DOMAIN ts |-> SuccessTuple(ts[x])], 2)
WorkFile(ns) ==
    Flatten([x \in DOMAIN ns |-> WorkTuple([y \in 1..ns[x] |-> y])], 2)

\* Every way a crash cuts a further tuple: some whole values, then nothing
\* or a value cut short.
TruncationsOf(tuple) ==
    {SubSeq(tuple, 1, n) \o p :
        n \in 0..Len(tuple) - 1, p \in {<<>>, <<Partial>>}} \ {<<>>}

Crashes ==
    {[file |-> "none", tail |-> <<>>]} \cup
    {[file |-> "work", tail |-> t] : t \in TruncationsOf(WorkTuple(<<1>>))}
    \cup
    {[file |-> "success", tail |-> t] : t \in TruncationsOf(SuccessTuple(1))}
    \cup
    {[file |-> "failed", tail |-> t] : t \in TruncationsOf(FailedTuple(1))}

TailOf(crash, file) == IF crash.file = file THEN crash.tail ELSE <<>>

VerifyInit ==
    /\ \E nw, ns, nf \in 0..MaxRecords :
          /\ nw + ns + nf <= MaxRecords
          /\ \E crash \in Crashes :
                /\ \E w \in SortedTickets(nw) :
                      workJournal = WorkFile(w) \o TailOf(crash, "work")
                /\ \E s \in SortedTickets(ns) :
                      successJournal =
                          SuccessFile(s) \o TailOf(crash, "success")
                /\ \E f \in SortedTickets(nf) :
                      failedJournal = FailedFile(f) \o TailOf(crash, "failed")
    /\ cast \in SUBSET Tickets
    /\ verifyPc = "start"
    /\ failedMap = NoRecords
    /\ successMap = NoRecords
    /\ workMap = NoWork
    /\ report = NoReport
    /\ voteIntervalQ = <<>>
    /\ retryQ = <<>>
    /\ ballotResults = <<>>
    /\ wctxDone = FALSE
    /\ retryWG = 0
    /\ mainPc = "start"
    /\ i = 0
    /\ vote = NoVote
    /\ mainErr = "none"
    /\ retryPc = "init"
    /\ retryItem = NoRetry
    /\ terminalFailures = {}
    /\ mainExit = "none"
    /\ mainSubmitted = {}
    /\ elapsed = 0
    /\ casts = [t \in Tickets |-> 0]
    /\ failedAttempts = [t \in Tickets |-> 0]
    /\ signals = {}
    /\ PrepIdle

VerifyNext == VerifyVote

VerifySpec == VerifyInit /\ [][VerifyNext]_vars

\* -------------------------------------------------- makeRequest, sendVote
\* The engine and the verifier are not running.
EngineIdle ==
    /\ voteIntervalQ = <<>>
    /\ retryQ = <<>>
    /\ ballotResults = <<>>
    /\ failedJournal = <<>>
    /\ successJournal = <<>>
    /\ wctxDone = FALSE
    /\ retryWG = 0
    /\ mainPc = "start"
    /\ i = 0
    /\ vote = NoVote
    /\ mainErr = "none"
    /\ retryPc = "init"
    /\ retryItem = NoRetry
    /\ terminalFailures = {}
    /\ mainExit = "none"
    /\ mainSubmitted = {}
    /\ elapsed = 0
    /\ casts = [t \in Tickets |-> 0]
    /\ failedAttempts = [t \in Tickets |-> 0]
    /\ signals = {}
    /\ workJournal = <<>>
    /\ cast = {}
    /\ verifyPc = "idle"
    /\ failedMap = NoRecords
    /\ successMap = NoRecords
    /\ workMap = NoWork
    /\ report = NoReport

\* HTTP status codes a request can meet.
StatusCodes == {200, 400, 401, 404, 500, 503}

\* Response bodies: bytes that are not JSON, or a JSON object with its
\* top-level errorcode (0 when the key is absent) and its receipts, each
\* given by its error code.
Garbage == [json |-> FALSE, errorCode |-> 0, receipts |-> <<>>]
UserErrorReply(code) == [json |-> TRUE, errorCode |-> code, receipts |-> <<>>]
CastBallotReply(rs) == [json |-> TRUE, errorCode |-> 0, receipts |-> rs]
Bodies ==
    {Garbage, UserErrorReply(1), UserErrorReply(0),
     CastBallotReply(<<"ok", "ok">>)}
    \cup {CastBallotReply(<<c>>) : c \in ReceiptCodes}

\* What a request can meet: requestOk is FALSE when the body cannot be
\* marshalled or the request cannot be built (320-343); transport is "fail"
\* when c.client.Do returns an error, which covers a refused connection, a
\* timeout and the cancellation of wctx (346-352).
Responses ==
    [requestOk : BOOLEAN, transport : {"ok", "fail"}, status : StatusCodes,
     body : Bodies]

\* 366-367: err = json.Unmarshal(responseBody, &ue);
\* err == nil && ue.ErrorCode != 0.
isUserError(body) == body.json /\ body.errorCode # 0

statusCaseOnlyServerErrors(status) ==
    IF status = 200 THEN "StatusOK"
    ELSE IF status < 500 THEN "StatusBadRequest"
    ELSE "default"

\* 360-381: the branch of switch r.StatusCode.
statusCase(status) ==
    IF status = 200 THEN "StatusOK"
    ELSE IF status = 400 THEN "StatusBadRequest"
    ELSE "default"

\* 311-383: the error makeRequest returns ("nil", "ErrRetry" or "error"),
\* the Code and Body of an ErrRetry, and the body returned with a nil error.
makeRequest(r) ==
    IF ~r.requestOk
    THEN [err |-> "error", code |-> 0, body |-> Garbage]
    ELSE IF r.transport # "ok"
    THEN [err |-> "ErrRetry", code |-> 0, body |-> Garbage]
    ELSE IF statusCase(r.status) = "default"
    THEN [err |-> "ErrRetry", code |-> r.status, body |-> r.body]
    ELSE IF statusCase(r.status) = "StatusBadRequest" /\ isUserError(r.body)
    THEN [err |-> "error", code |-> 0, body |-> Garbage]
    ELSE [err |-> "nil", code |-> 0, body |-> r.body]

\* 690-713: the outcome of sendVote for the engine, a member of Outcomes.
sendVote(r) ==
    LET m == makeRequest(r) IN
    IF m.err = "ErrRetry" THEN "retry"
    ELSE IF m.err = "error" THEN "fatal"
    ELSE IF ~m.body.json THEN "fatal"
    ELSE IF Len(m.body.receipts) # 1 THEN "fatal"
    ELSE m.body.receipts[1]

\* 690-713: one sendVote call.
SendVote ==
    /\ requestPc = "start"
    /\ requestPc' = "done"
    /\ sendVoteReply' =
         [err |-> makeRequest(httpResponse).err,
          code |-> makeRequest(httpResponse).code,
          body |-> makeRequest(httpResponse).body,
          outcome |-> sendVote(httpResponse)]
    /\ UNCHANGED <<queueVars, ballotResults, journalVars, wctxDone, retryWG,
                   mainVars, retryVars, casts, failedAttempts, signals,
                   verifyVars, httpResponse, votePc, eligibleVars, signVars,
                   schedule, voteErr, durationVars>>

RequestInit ==
    /\ httpResponse \in Responses
    /\ requestPc = "start"
    /\ sendVoteReply = NoReply
    /\ EngineIdle
    /\ VoteIdle

RequestNext == SendVote

RequestSpec == RequestInit /\ [][RequestNext]_vars

\* --------------------------------------------------------- eligibleVotes
\* 480: 1<<31 - 1, the account number of imported xpub accounts.
ImportedXpubAccount == 2147483647

\* Account numbers the wallet can report for an address.
AccountNumbers == {0, ImportedXpubAccount - 1, ImportedXpubAccount}

\* What the wallet answers for a ticket: err when GetTransaction,
\* Deserialize, AddrFromSStxPkScrCommitment or ValidateAddress fails
\* (455-479), else the account number of the commitment address.
WalletAnswers ==
    {NoAccount} \cup [err : {FALSE}, AccountNumber : AccountNumbers]

\* The commitment address of a ticket.
AddressOf(t) == 100 + t

TicketAddress(t) == [Ticket |-> t, Address |-> AddressOf(t)]

\* The lists of distinct tickets, of 1 to NumTickets entries, in any order.
TicketLists ==
    UNION {{l \in [1..n -> Tickets] :
               \A x, y \in 1..n : l[x] = l[y] => x = y} : n \in 1..NumTickets}

TicketAddresses == {[x \in DOMAIN l |-> TicketAddress(l[x])] : l \in TicketLists}

\* Server entries for a ticket in rr.Votes: none, or a cast vote whose
\* recorded signature is valid or invalid.
CastVoteDetails == {"none", "valid", "invalid"}

\* 437-440: the map of cast votes; a ticket is a key when rr.Votes lists it.
castVotes(votes) == {t \in Tickets : votes[t] # "none"}

\* 485-486: _, ok := castVotes[h.String()]; !ok.
isNotCast(t, votes) == t \notin castVotes(votes)

\* 448-489: the loop over ctres.TicketAddresses.
RECURSIVE eligibleVotesLoop(_, _, _, _, _)
eligibleVotesLoop(tas, k, votes, w, acc) ==
    IF k > Len(tas) THEN acc
    ELSE LET t == tas[k] IN
         IF w[t.Ticket].err
         THEN eligibleVotesLoop(tas, k + 1, votes, w, acc)
         ELSE IF w[t.Ticket].AccountNumber >= ImportedXpubAccount
         THEN eligibleVotesLoop(tas, k + 1, votes, w, acc)
         ELSE IF isNotCast(t.Ticket, votes)
         THEN eligibleVotesLoop(tas, k + 1, votes, w, Append(acc, t))
         ELSE eligibleVotesLoop(tas, k + 1, votes, w, acc)

\* 435-492: eligibleVotes. Ticket hashes are well formed, so NewHash (449)
\* does not fail.
eligibleVotes(votes, tas, w) == eligibleVotesLoop(tas, 1, votes, w, <<>>)

\* 939-947: _vote calls eligibleVotes and gives up when nothing is eligible.
EligibleVotes ==
    /\ votePc = "eligible"
    /\ eligible' = eligibleVotes(rr, ctres, wallet)
    /\ IF eligible' = <<>>
       THEN /\ votePc' = "returned"
            /\ voteErr' = "no eligible tickets found"
       ELSE /\ votePc' = "shuffle"
            /\ UNCHANGED voteErr
    /\ UNCHANGED <<queueVars, ballotResults, journalVars, wctxDone, retryWG,
                   mainVars, retryVars, casts, failedAttempts, signals,
                   verifyVars, requestVars, rr, ctres, wallet, signVars,
                   schedule, durationVars>>

\* _vote has reached the call of eligibleVotes: the wallet returned the
\* committed tickets (917-927) and the server the cast votes (931-934).
EligibleInit ==
    /\ votePc = "eligible"
    /\ ctres \in TicketAddresses
    /\ wallet \in {w \in [Tickets -> WalletAnswers] :
                     \A t \in Tickets :
                        (\A x \in DOMAIN ctres : ctres[x].Ticket # t)
                            => w[t] = NoAccount}
    /\ rr \in {v \in [Tickets -> CastVoteDetails] :
                     \A t \in Tickets :
                        (\A x \in DOMAIN ctres : ctres[x].Ticket # t)
                            => v[t] = "none"}
    /\ eligible = <<>>
    /\ SignIdle
    /\ schedule = <<>>
    /\ voteErr = "none"
    /\ DurationIdle
    /\ RequestIdle
    /\ EngineIdle

EligibleNext == EligibleVotes

EligibleSpec == EligibleInit /\ [][EligibleNext]_vars

\* ------------------------------------------------------------------ _vote
\* 32-bit unsigned integers, as two 16-bit halves.
Half == 65536
U32(n) == [hi |-> n \div Half, lo |-> n % Half]
MaxU32 == [hi |-> Half - 1, lo |-> Half - 1]

\* a - b in uint32 arithmetic.
Sub32(a, b) ==
    LET borrow == IF a.lo < b.lo THEN 1 ELSE 0
    IN  [hi |-> (a.hi - b.hi - borrow) % Half, lo |-> (a.lo - b.lo) % Half]

\* a < b and a <= b on uint32.
Less32(a, b) == a.hi < b.hi \/ (a.hi = b.hi /\ a.lo < b.lo)
Leq32(a, b) == ~Less32(b, a)

swapOverwriting(l, a, b) == [l EXCEPT ![a] = l[b]]

\* 953: eligible[i], eligible[j] = eligible[j], eligible[i].
swap(l, a, b) == [l EXCEPT ![a] = l[b], ![b] = l[a]]

\* The values r.Intn returns in one shuffle of n entries: the k-th call is
\* Intn(n - (k - 1)), a value of 0..n-k.
Draws(n) == {d \in [1..n -> 0..n - 1] : \A k \in 1..n : d[k] <= n - k}

\* 950-954: the loop of the shuffle from its k-th pass on, indices from 1.
RECURSIVE shuffleLoop(_, _, _)
shuffleLoop(l, k, d) ==
    IF k > Len(l) THEN l
    ELSE shuffleLoop(swap(l, k, d[k] + k), k + 1, d)

\* 948-954: the Fisher-Yates shuffle with the draws d.
shuffle(l, d) == shuffleLoop(l, 1, d)

\* 948-955: _vote shuffles eligible and stores it in ctres.TicketAddresses.
Shuffle ==
    /\ votePc = "shuffle"
    /\ \E d \in Draws(Len(eligible)) :
          /\ eligible' = shuffle(eligible, d)
          /\ ctres' = eligible'
    /\ votePc' = "sign"
    /\ UNCHANGED <<queueVars, ballotResults, journalVars, wctxDone, retryWG,
                   mainVars, retryVars, casts, failedAttempts, signals,
                   verifyVars, requestVars, rr, wallet, signVars, schedule,
                   voteErr, durationVars>>

\* 973: msg := token + h.String() + voteBit.
Message(t) == <<"token", t, "voteBit">>

\* 968-978: sm.Messages, one per entry of ctres.TicketAddresses.
signRequests(tas) ==
    [k \in DOMAIN tas |->
        [Address |-> tas[k].Address, Message |-> Message(tas[k].Ticket)]]

\* The signature the wallet makes for a message with the key of an address.
Signature(m) == [by |-> m.Address, of |-> m.Message]
NoSignature == [by |-> 0, of |-> <<>>]

\* The replies of SignMessages, one per message and in the order of the
\* messages; the messages of failing hold an error and no signature.
signReplies(sm, failing) ==
    [k \in DOMAIN sm |->
        IF k \in failing
        THEN [Error |-> "error", Signature |-> NoSignature]
        ELSE [Error |-> "", Signature |-> Signature(sm[k])]]

\* 985-990: some reply holds an error.
signatureFailed(replies) == \E k \in DOMAIN replies : replies[k].Error # ""

\* 957-992: _vote asks for the passphrase, has the wallet sign one message
\* per ticket, and returns an error when the passphrase or the call fails or
\* when a reply holds an error.
SignMessages ==
    /\ votePc = "sign"
    /\ \/ /\ votePc' = "returned"
          /\ voteErr' \in {"walletPassphrase", "SignMessages"}
          /\ UNCHANGED smr
       \/ \E failing \in SUBSET DOMAIN ctres :
             /\ smr' = signReplies(signRequests(ctres), failing)
             /\ IF signatureFailed(smr')
                THEN /\ votePc' = "returned"
                     /\ voteErr' = "signature failed"
                ELSE /\ votePc' = IF cfgTrickle THEN "duration" ELSE "ballot"
                     /\ UNCHANGED voteErr
    /\ UNCHANGED <<queueVars, ballotResults, journalVars, wctxDone, retryWG,
                   mainVars, retryVars, casts, failedAttempts, signals,
                   verifyVars, requestVars, eligibleVars, cfgTrickle, cv,
                   schedule, durationVars>>

replyIndexReversed(k, n) == n + 1 - k

\* 1029: smr.Replies[k], the reply used for the k-th of n tickets.
replyIndex(k, n) == k

\* 1020-1036: cv.Votes, one CastVote per entry of ctres.TicketAddresses.
castVotesOf(tas, replies) ==
    [k \in DOMAIN tas |->
        [Ticket |-> tas[k].Ticket,
         Signature |-> replies[replyIndex(k, Len(tas))].Signature]]

\* 1017-1053: without trickling _vote sends all votes in one ballot and
\* keeps the receipts of the reply, here one receipt per vote.
VoteAtOnce ==
    /\ votePc = "ballot"
    /\ cv' = castVotesOf(ctres, smr)
    /\ votePc' = "returned"
    /\ \/ /\ voteErr' \in {"makeRequest", "Could not unmarshal CastVoteReply"}
          /\ UNCHANGED ballotResults
       \/ /\ \E c \in ReceiptCodes :
               ballotResults' =
                   [k \in DOMAIN cv' |-> CastVoteReply(cv'[k].Ticket, c)]
          /\ UNCHANGED voteErr
    /\ UNCHANGED <<queueVars, journalVars, wctxDone, retryWG, mainVars,
                   retryVars, casts, failedAttempts, signals, verifyVars,
                   requestVars, eligibleVars, smr, cfgTrickle, schedule,
                   durationVars>>

\* Block heights the server can report.
Heights == {U32(n) : n \in 0..MaxBlocks} \cup {MaxU32}

\* c.cfg.blocksPerHour.
BlocksPerHour == {U32(1), U32(2)}

\* 997: blocksLeft := vs.EndBlockHeight - bestBlock.
blocksLeft(b) == Sub32(b.EndBlockHeight, b.bestBlock)

\* 998: blocksLeft < uint32(c.cfg.blocksPerHour).
tooLate(b) == Less32(blocksLeft(b), b.blocksPerHour)

\* 1003-1005: the duration in units of activeNetParams.TargetTimePerBlock,
\* time.Duration(blocksLeft) - time.Duration(c.cfg.blocksPerHour); it is
\* computed when blocksLeft is not below blocksPerHour.
durationOf(b) == Sub32(blocksLeft(b), b.blocksPerHour)

\* 995-1006: _vote computes the vote duration when none is configured.
VoteDuration ==
    /\ votePc = "duration"
    /\ IF voteDuration # NoDuration
       THEN /\ votePc' = "trickle"
            /\ UNCHANGED <<blocks, voteDuration, voteErr>>
       ELSE \E e \in Heights, b \in Heights, h \in BlocksPerHour :
               /\ blocks' = [EndBlockHeight |-> e, bestBlock |-> b,
                             blocksPerHour |-> h]
               /\ IF tooLate(blocks')
                  THEN /\ votePc' = "returned"
                       /\ voteErr' = "less than one hour left to vote"
                       /\ UNCHANGED voteDuration
                  ELSE /\ votePc' = "trickle"
                       /\ voteDuration' = durationOf(blocks')
                       /\ UNCHANGED voteErr
    /\ UNCHANGED <<queueVars, ballotResults, journalVars, wctxDone, retryWG,
                   mainVars, retryVars, casts, failedAttempts, signals,
                   verifyVars, requestVars, eligibleVars, signVars,
                   schedule>>

\* The samples of [0, D] that are tried: those of 0..MaxDelay.
Samples(D) == {x \in 0..MaxDelay : Leq32(U32(x), D)}

RECURSIVE insertSorted(_, _)
insertSorted(l, x) ==
    IF l = <<>> THEN <<x>>
    ELSE IF x <= Head(l) THEN <<x>> \o l
    ELSE <<Head(l)>> \o insertSorted(Tail(l), x)

\* The samples in ascending order.
RECURSIVE sortSamples(_)
sortSamples(l) ==
    IF l = <<>> THEN <<>>
    ELSE insertSorted(sortSamples(Tail(l)), Head(l))

interArrivalAbsolute(sorted, k) == sorted[k]

\* The k-th delay: the first sample, then the difference of successive
\* samples.
interArrival(sorted, k) ==
    IF k = 1 THEN sorted[1] ELSE sorted[k] - sorted[k - 1]

\* calculateTrickle: one voteInterval per entry of ctres.TicketAddresses,
\* with the signature of the reply of the same index and the delays of the
\* sorted samples.
calculateTrickle(tas, replies, samples) ==
    LET sorted == sortSamples(samples)
    IN  [k \in DOMAIN tas |->
            [Ticket |-> tas[k].Ticket,
             Signature |-> replies[k].Signature,
             At |-> interArrival(sorted, k)]]

\* 1008-1014: _vote generates the work: the schedule is queued and written
\* to the work journal, and _voteTrickler is called.
CalculateTrickle ==
    /\ votePc = "trickle"
    /\ \E samples \in [DOMAIN ctres -> Samples(voteDuration)] :
          schedule' = calculateTrickle(ctres, smr, samples)
    /\ voteIntervalQ' =
          [k \in DOMAIN schedule' |->
              [Ticket |-> schedule'[k].Ticket, At |-> schedule'[k].At]]
    /\ workJournal' =
          WorkTuple([k \in DOMAIN schedule' |-> schedule'[k].Ticket])
    /\ votePc' = "_voteTrickler"
    /\ UNCHANGED <<retryQ, ballotResults, journalVars, wctxDone, retryWG,
                   mainVars, retryVars, casts, failedAttempts, signals, cast,
                   verifyPc, failedMap, successMap, workMap, report,
                   requestVars, eligibleVars, signVars, voteErr,
                   durationVars>>

\* Vote durations set with --voteduration, in units of TargetTimePerBlock.
ConfiguredDurations == {U32(d) : d \in 1..MaxDelay + 1}

\* _vote has found the eligible tickets (939-947), all committed tickets
\* here; trickling and the vote duration come from the configuration.
VoteInit ==
    /\ votePc = "shuffle"
    /\ eligible \in TicketAddresses
    /\ ctres = eligible
    /\ rr = [t \in Tickets |-> "none"]
    /\ wallet = [t \in Tickets |->
                    IF \E x \in DOMAIN ctres : ctres[x].Ticket = t
                    THEN [err |-> FALSE, AccountNumber |-> 0]
                    ELSE NoAccount]
    /\ smr = <<>>
    /\ cfgTrickle \in BOOLEAN
    /\ cv = <<>>
    /\ schedule = <<>>
    /\ voteErr = "none"
    /\ blocks = NoBlocks
    /\ voteDuration \in {NoDuration} \cup ConfiguredDurations
    /\ RequestIdle
    /\ EngineIdle

VoteNext ==
    \/ Shuffle
    \/ SignMessages
    \/ VoteAtOnce
    \/ VoteDuration
    \/ CalculateTrickle

VoteSpec == VoteInit /\ [][VoteNext]_vars

\* ------------------------------------------------------------ type check
TypeOK ==
    /\ TicketsOf(voteIntervalQ) \subseteq Tickets
    /\ RetryTicketsOf(retryQ) \subseteq Tickets
    /\ wctxDone \in BOOLEAN
    /\ retryWG \in 0..1
    /\ mainPc \in {"start", "pop", "wait", "vote", "inflight", "sendForceExit",
                   "sendDone", "waitRetry", "returned"}
    /\ retryPc \in {"init", "idle", "sleep", "inflight", "sendForceExit",
                    "exiting", "exited"}
    /\ i \in 0..NumTickets
    /\ mainErr \in {"none", "nil", "error"}

\* Runs without cancellation, non-retryable errors, VoteStatusInvalid or
\* journal errors, in which both loops keep running and every request is
\* answered.
BenignReceipts == ReceiptCodes \ {"invalid"}

BenignMain ==
    \/ MainStart
    \/ MainPop
    \/ MainWaitTimer
    \/ MainSend
    \/ MainReplyRetry(3)
    \/ \E c \in BenignReceipts : MainReplyReceipt(c, 2)
    \/ MainWaitRetry

BenignRetry ==
    \/ MainLoopDone
    \/ RetryPop
    \/ RetrySend
    \/ RetryReplyRetry
    \/ \E c \in BenignReceipts : RetryReplyReceipt(c)
    \/ RetryExit

BenignNext == BenignMain \/ BenignRetry

BenignSpec ==
    Init /\ [][BenignNext]_vars /\ WF_vars(BenignMain) /\ WF_vars(BenignRetry)

\* All runs, with both loops scheduled fairly.
FairSpec == Spec /\ WF_vars(MainStep) /\ WF_vars(RetryStep)

\* ------------------------------------------------------- ticket states
Count(journal, rec) == Cardinality({x \in DOMAIN journal : journal[x] = rec})

SuccessRecords(t) ==
    Cardinality({x \in DOMAIN successJournal :
        /\ successJournal[x].k = "receipt"
        /\ successJournal[x].ticket = t})

HeldByMain(t) == vote.Ticket = t

HeldByRetry(t) == retryItem.vote = t

Pending(t) ==
    \/ t \in TicketsOf(voteIntervalQ)
    \/ t \in RetryTicketsOf(retryQ)
    \/ HeldByMain(t)
    \/ HeldByRetry(t)

Succeeded(t) == SuccessRecords(t) > 0

TerminallyFailed(t) ==
    \/ t \in terminalFailures
    \/ Count(failedJournal, CastVoteReply(t, "invalid")) > 0

StatesOf(t) ==
    (IF Pending(t) THEN {"pending"} ELSE {})
    \cup (IF Succeeded(t) THEN {"success"} ELSE {})
    \cup (IF TerminallyFailed(t) THEN {"terminal"} ELSE {})

EngineExited == mainPc = "returned" /\ mainErr = "nil"

\* ----------------------------------------------------------------- C1
\* C1: every scheduled ticket is in at most one of pending, success and
\* terminal failure in every reachable state, and in exactly one of them
\* once _voteTrickler has returned nil (normal completion, cancellation,
\* retryLoopForceExit, VoteStatusInvalid).
C1_OneStatePerTicket ==
    \A t \in Tickets :
        /\ Cardinality(StatesOf(t)) <= 1
        /\ EngineExited => Cardinality(StatesOf(t)) = 1

\* ----------------------------------------------------------------- C2
AllSettled ==
    \A t \in Tickets :
        \/ SuccessRecords(t) = 1 /\ ~TerminallyFailed(t) /\ ~Pending(t)
        \/ SuccessRecords(t) = 0 /\ t \in terminalFailures /\ ~Pending(t)

Terminated == mainPc = "returned" /\ mainErr = "nil" /\ retryPc = "exited"

\* C2: in a benign run (no cancellation, no non-retryable error, no
\* VoteStatusInvalid, every request answered, both loops scheduled fairly)
\* every scheduled ticket eventually has exactly one success record or one
\* terminal failure, and the engine terminates.
C2_EventuallySettled == <>(AllSettled /\ Terminated)

\* A benign run has ended with one ticket failed at the retry cap and another
\* one cast by the retry loop.
C2_Witness ==
    /\ AllSettled
    /\ Terminated
    /\ terminalFailures # {}
    /\ \E t \in Tickets : SuccessRecords(t) = 1 /\ failedAttempts[t] > 0

\* ----------------------------------------------------------------- C3
NoLoopRuns ==
    /\ mainPc = "returned"
    /\ retryPc \in {"exiting", "exited"}

NotSubmittedByMain == Tickets \ mainSubmitted

HoldsExactly(q, T) == TicketsOf(q) = T /\ Len(q) = Cardinality(T)

\* C4: after the main loop has taken retryLoopForceExit while waiting for a
\* vote's delay, it has returned and the interval queue holds exactly the
\* scheduled votes the main loop has not submitted, the one it had popped
\* included.
C4_RetryForceExitPutsBack ==
    mainExit = "retryLoopForceExit" =>
        /\ mainPc = "returned"
        /\ HoldsExactly(voteIntervalQ, NotSubmittedByMain)

\* The main loop was forced out while holding a vote, with a later vote
\* still queued.
C4_Witness ==
    /\ mainExit = "retryLoopForceExit"
    /\ Len(voteIntervalQ) >= 2
    /\ "retryLoopForceExit" \in signals

\* ----------------------------------------------------------------- C5
\* C5: after the main loop has left on cancellation while waiting for a
\* vote's delay, the interval queue holds every vote the main loop has not
\* submitted, the one it had popped included.
C5_CancelPutsBack ==
    mainExit = "cancel" =>
        /\ mainPc = "returned"
        /\ HoldsExactly(voteIntervalQ, NotSubmittedByMain)

\* Cancellation arrived while the main loop was waiting for the delay of a
\* vote, with a later vote still queued.
C5_Witness ==
    /\ mainExit = "cancel"
    /\ voteIntervalQ # <<>>
    /\ mainSubmitted # {}

\* ----------------------------------------------------------------- C6
JournaledByMain(t) ==
    \/ Count(failedJournal, CastBallot(t)) > 0
    \/ Count(failedJournal, CastVoteReply(t, "invalid")) > 0
    \/ SuccessRecords(t) > 0

\* C6: when the main loop leaves normally, mainLoopDone is sent only after
\* every vote has been popped, submitted and its outcome journaled, and
\* _voteTrickler returns only after the retry loop has exited.
C6_NormalExitWaitsForRetry ==
    /\ mainExit = "normal" =>
         retryPc = "exited" /\ "mainLoopDone" \in signals
    /\ (mainPc \in {"sendDone", "waitRetry"} \/ "mainLoopDone" \in signals) =>
         /\ voteIntervalQ = <<>>
         /\ mainSubmitted = Tickets
         /\ \A t \in Tickets : JournaledByMain(t)

\* A normal return after the retry loop has worked on a failed vote.
C6_Witness ==
    /\ mainExit = "normal"
    /\ mainPc = "returned"
    /\ retryPc = "exited"
    /\ \E t \in Tickets : failedAttempts[t] > 1

\* ----------------------------------------------------------------- C7
RetryLeft == retryPc \in {"exiting", "exited"}

C8_AttemptsBounded ==
    /\ \A x \in DOMAIN retryQ :
         /\ retryQ[x].attempts \in 0..MAX_ATTEMPTS
         /\ retryQ[x].attempts = failedAttempts[retryQ[x].vote] - 1
    /\ \A t \in terminalFailures :
         /\ failedAttempts[t] = MAX_ATTEMPTS + 1
         /\ t \notin RetryTicketsOf(retryQ)
    /\ \A t \in Tickets :
         failedAttempts[t] = MAX_ATTEMPTS + 1 => t \in terminalFailures

\* One ticket was evicted at the cap while another waits in the queue after
\* a failed re-submission.
C8_Witness ==
    /\ terminalFailures # {}
    /\ \E x \in DOMAIN retryQ : retryQ[x].attempts = MAX_ATTEMPTS - 1

\* ----------------------------------------------------------------- C9
InFlight(t) ==
    (IF mainPc = "inflight" /\ vote.Ticket = t THEN 1 ELSE 0)
    + (IF retryPc = "inflight" /\ retryItem.vote = t THEN 1 ELSE 0)

\* C9: no ticket is in the interval queue and in the retry queue at the same
\* time, no queue holds a ticket twice, and at most one submission per
\* ticket is in flight across the two loops.
C9_OneQueueOneFlight ==
    /\ TicketsOf(voteIntervalQ) \cap RetryTicketsOf(retryQ) = {}
    /\ Len(voteIntervalQ) = Cardinality(TicketsOf(voteIntervalQ))
    /\ Len(retryQ) = Cardinality(RetryTicketsOf(retryQ))
    /\ \A t \in Tickets : InFlight(t) <= 1
    /\ \A t \in Tickets :
         InFlight(t) = 1 =>
           t \notin TicketsOf(voteIntervalQ) \cup RetryTicketsOf(retryQ)

\* Both loops have a submission in flight while a third ticket waits in the
\* retry queue.
C9_Witness ==
    /\ mainPc = "inflight"
    /\ retryPc = "inflight"
    /\ retryQ # <<>>

\* ---------------------------------------------------------------- C10
MainGotErrRetry ==
    /\ mainPc = "inflight"
    /\ mainPc' # mainPc
    /\ failedAttempts' # failedAttempts

\* C10: a main-loop submission that fails with ErrRetry, its failed-journal
\* append succeeding, appends exactly one tuple (time marker, ballot, error)
\* to the failed journal and pushes exactly one retry item with attempts = 0
\* for that vote, leaves the results list and the success journal alone, and
\* the main loop goes on to the next vote; while no journal append has
\* failed, the failed journal holds one ballot entry per failed attempt.
C10_RetryableFailure ==
    /\ [][(MainGotErrRetry /\ mainErr' = "none") =>
            /\ failedJournal' = failedJournal \o FailedTuple(vote.Ticket)
            /\ retryQ' = Append(retryQ, [vote |-> vote.Ticket, attempts |-> 0])
            /\ ballotResults' = ballotResults
            /\ successJournal' = successJournal
            /\ voteIntervalQ' = voteIntervalQ
            /\ mainPc' = "pop"
            /\ i' = i + 1]_vars
    /\ [](mainExit # "journal" =>
            \A t \in Tickets :
                Count(failedJournal, CastBallot(t)) = failedAttempts[t])

\* The main loop has just rescheduled a vote and stands at the next pop.
C10_Witness ==
    /\ mainPc = "pop"
    /\ retryQ # <<>>
    /\ retryQ[Len(retryQ)].attempts = 0
    /\ Len(failedJournal) >= 3
    /\ failedJournal[Len(failedJournal) - 1] =
         CastBallot(retryQ[Len(retryQ)].vote)
    /\ ballotResults = <<>>
    /\ successJournal = <<>>

\* ---------------------------------------------------------------- C11
\* The main loop's submission ended in a receipt whose journal append
\* succeeded, and the failed journal was not the journal written.
MainGotReceipt ==
    /\ mainPc = "inflight"
    /\ mainPc' # mainPc
    /\ failedAttempts' = failedAttempts
    /\ failedJournal' = failedJournal
    /\ mainErr' = "none"

\* C11: a main-loop receipt whose code is not VoteStatusInvalid is appended
\* to the results list, exactly one tuple (time marker, receipt) is appended
\* to the success journal, nothing goes to the failed journal or to the retry
\* queue, and the main loop goes on to the next vote.
C11_ReceiptRecorded ==
    [][MainGotReceipt =>
         \E c \in ReceiptCodes \ {"invalid"} :
            LET vr == CastVoteReply(vote.Ticket, c) IN
                /\ ballotResults' = Append(ballotResults, vr)
                /\ successJournal' = successJournal \o <<JSONTime, vr>>
                /\ failedJournal' = failedJournal
                /\ retryQ' = retryQ
                /\ voteIntervalQ' = voteIntervalQ
                /\ mainPc' = "pop"
                /\ i' = i + 1]_vars

\* The main loop has just recorded a receipt carrying a benign error code and
\* stands at the next pop.
C11_Witness ==
    /\ mainPc = "pop"
    /\ mainExit = "none"
    /\ ballotResults # <<>>
    /\ ballotResults[Len(ballotResults)].code = "other"
    /\ Len(successJournal) >= 2
    /\ successJournal[Len(successJournal)] = ballotResults[Len(ballotResults)]
    /\ failedJournal = <<>>
    /\ retryQ = <<>>
    /\ retryPc = "idle"

\* ---------------------------------------------------------------- C12
\* The main loop's submission ended in a VoteStatusInvalid receipt.
MainGotInvalid ==
    /\ mainPc = "inflight"
    /\ mainPc' # mainPc
    /\ Len(ballotResults') = Len(ballotResults) + 1
    /\ ballotResults'[Len(ballotResults')].code = "invalid"

\* C12: a main-loop VoteStatusInvalid receipt is appended to the failed
\* journal and never to the success journal; the main loop then signals
\* mainLoopForceExit and leaves without popping or submitting another vote,
\* so the votes not yet submitted stay in the interval queue.
C12_InvalidStopsMain ==
    /\ [][(MainGotInvalid /\ mainErr' = "none") =>
            LET vr == CastVoteReply(vote.Ticket, "invalid") IN
                /\ failedJournal' = failedJournal \o <<JSONTime, vr>>
                /\ successJournal' = successJournal
                /\ ballotResults' = Append(ballotResults, vr)
                /\ queueVars' = queueVars
                /\ mainPc' = "sendForceExit"]_vars
    /\ [][mainPc = "sendForceExit" =>
            /\ mainPc' \in {"sendForceExit", "returned"}
            /\ mainSubmitted' = mainSubmitted
            /\ voteIntervalQ' = voteIntervalQ]_vars
    /\ [](mainExit = "invalid" =>
            /\ mainPc = "returned"
            /\ HoldsExactly(voteIntervalQ, NotSubmittedByMain))
    /\ [](\A n \in 1..Len(successJournal) :
            successJournal[n].code # "invalid")

\* The main loop has left on its own VoteStatusInvalid receipt with votes
\* still unsubmitted.
C12_Witness ==
    /\ mainExit = "invalid"
    /\ mainPc = "returned"
    /\ voteIntervalQ # <<>>
    /\ \E t \in Tickets :
          /\ Count(failedJournal, CastVoteReply(t, "invalid")) = 1
          /\ t \in mainSubmitted

\* ---------------------------------------------------------------- C13
\* The main loop's submission ended in an error that is not an ErrRetry: no
\* receipt arrived and no attempt was counted as retryable.
MainGotFatal ==
    /\ mainPc = "inflight"
    /\ mainPc' # mainPc
    /\ ballotResults' = ballotResults
    /\ failedAttempts' = failedAttempts

\* C13: when the main loop's submission fails with a non-retryable error,
\* _voteTrickler returns the error at once: no journal is written for the
\* vote, nothing is pushed on the retry queue, the results list is unchanged
\* and the main loop submits no further vote.
C13_FatalReturns ==
    /\ [][MainGotFatal =>
            /\ mainPc' = "returned"
            /\ mainErr' = "error"
            /\ journalVars' = journalVars
            /\ queueVars' = queueVars
            /\ ballotResults' = ballotResults]_vars
    /\ [][mainErr = "error" =>
            /\ mainPc' = mainPc
            /\ mainSubmitted' = mainSubmitted]_vars

\* The main loop has returned a non-retryable error after earlier votes were
\* recorded and rescheduled, with votes still unsubmitted.
C13_Witness ==
    /\ mainExit = "fatal"
    /\ mainErr = "error"
    /\ mainPc = "returned"
    /\ voteIntervalQ # <<>>
    /\ ballotResults # <<>>

\* ---------------------------------------------------------------- C14
\* The main loop's submission ended and the journal append that followed
\* returned an error: fewer values than a whole tuple reached the file.
MainJournalFailed ==
    /\ mainPc = "inflight"
    /\ mainPc' # mainPc
    /\ \/ /\ failedAttempts' # failedAttempts
          /\ Len(failedJournal') < Len(failedJournal) + 3
       \/ /\ ballotResults' # ballotResults
          /\ Len(failedJournal') + Len(successJournal') <
               Len(failedJournal) + Len(successJournal) + 2

\* C14: when a journal append (failed or success journal) returns an error
\* in the main loop, _voteTrickler returns an error immediately and submits
\* no further vote; after a retryable failure whose journal append failed
\* the vote is not pushed on the retry queue.
C14_JournalErrorReturns ==
    /\ [][MainJournalFailed =>
            /\ mainPc' = "returned"
            /\ mainErr' = "error"
            /\ queueVars' = queueVars]_vars
    /\ [][mainExit = "journal" =>
            /\ mainPc' = mainPc
            /\ mainSubmitted' = mainSubmitted]_vars
    /\ [](mainExit = "journal" => mainErr = "error")

\* The failed-journal append of a retryable failure broke off after the time
\* marker: the run has returned and the vote is on no queue.
C14_Witness ==
    /\ mainExit = "journal"
    /\ mainPc = "returned"
    /\ failedJournal # <<>>
    /\ failedJournal[Len(failedJournal)] = JSONTime
    /\ \E t \in Tickets :
          /\ failedAttempts[t] = 1
          /\ t \notin RetryTicketsOf(retryQ) \cup TicketsOf(voteIntervalQ)
          /\ t \in mainSubmitted

\* ---------------------------------------------------------------- C15
\* 1066-1071: the receipts of ballotResults with a non-empty ErrorContext.
failedReceipts ==
    SelectSeq(ballotResults, LAMBDA vr : vr.code # "ok")

\* 1074-1075: "Votes succeeded".
VotesSucceeded == Len(ballotResults) - Len(failedReceipts)

\* 1076: "Votes failed".
VotesFailed == Len(failedReceipts)

\* 1077-1079: notCast := c.voteIntervalLen() + uint64(c.retryLen()).
notCast == voteIntervalLen(voteIntervalQ) + retryLen(retryQ)

\* C15: whenever a trickle run returns to vote without error, the three
\* figures of the summary add up to the number of votes of the run:
\* succeeded + failed + not cast = N.
C15_SummaryAddsUp ==
    EngineExited => VotesSucceeded + VotesFailed + notCast = NumTickets

\* ---------------------------------------------------------------- C16
IsPrefix(s, t) == Len(s) <= Len(t) /\ SubSeq(t, 1, Len(s)) = s

\* The tuples the engine hands to jsonLog, time marker included.
JournalTuples ==
    {FailedTuple(t) : t \in Tickets} \cup
    {<<JSONTime, CastVoteReply(t, c)>> : t \in Tickets, c \in ReceiptCodes}

\* new is old followed by the leading values of one tuple.
AppendsOneCall(old, new) ==
    \/ new = old
    \/ /\ IsPrefix(old, new)
       /\ \E tuple \in JournalTuples :
             IsPrefix(SubSeq(new, Len(old) + 1, Len(new)), tuple)

\* C16: the journals are append-only: the content after any step has the
\* content before it as a prefix, and what one jsonLog call adds is one time
\* marker followed by the payload values in argument order.
C16_AppendOnly ==
    [][/\ AppendsOneCall(failedJournal, failedJournal')
       /\ AppendsOneCall(successJournal, successJournal')]_vars

\* Both journals hold records, the failed journal more than one tuple.
C16_Witness ==
    /\ Len(failedJournal) >= 6
    /\ failedJournal[1] = JSONTime
    /\ failedJournal[4] = JSONTime
    /\ Len(successJournal) >= 2

\* ---------------------------------------------------------------- C17
\* The number of places of a file at which the whole tuple stands.
Occurrences(file, tuple) ==
    Cardinality({x \in 1..Len(file) - Len(tuple) + 1 :
                    SubSeq(file, x, x + Len(tuple) - 1) = tuple})

\* The number of complete work tuples of a file: a time marker followed by
\* a whole array of voteInterval.
WorkOccurrences(file) ==
    Cardinality({x \in 1..Len(file) - 1 :
                    file[x] = JSONTime /\ file[x + 1].k = "votes"})

\* C17: a journal is prefix-decodable: of a file made of k complete tuples
\* followed by any truncation of a further tuple, decodeWork, decodeSuccess
\* and decodeFailed record all k complete tuples in their map, whatever they
\* return for the tail.
C17_PrefixDecodable ==
    verifyPc = "done" =>
        /\ Len(workMap["time"]) = WorkOccurrences(workJournal)
        /\ \A t \in Tickets :
              /\ Len(successMap[t]) =
                   Occurrences(successJournal, SuccessTuple(t))
              /\ Len(failedMap[t]) = Occurrences(failedJournal, FailedTuple(t))

\* A work journal of two complete tuples and a tuple cut short was decoded:
\* the decoder returned an error and the map holds both tuples.
C17_Witness ==
    /\ verifyPc = "done"
    /\ report.decodeWork # "nil"
    /\ Len(workMap["time"]) = 2
    /\ Len(workJournal) > 4

\* ---------------------------------------------------------------- C18
\* The file ends between two tuples of the given size: every value is whole
\* and the last tuple is complete.
EndsBetweenTuples(file, size) ==
    /\ Len(file) % size = 0
    /\ \A x \in 1..Len(file) : file[x] # Partial

\* C18: a decoder returns without error exactly when the stream ends in
\* state 0, between tuples; an end of stream or a decode error inside a
\* tuple is returned as an error for that file, and verifyVote still decodes
\* the other files and prints its report over what was decoded.
C18_GracefulOnlyBetweenTuples ==
    verifyPc = "done" =>
        /\ report.decodeWork = "nil" <=> EndsBetweenTuples(workJournal, 2)
        /\ report.decodeSuccess = "nil" <=>
             EndsBetweenTuples(successJournal, 2)
        /\ report.decodeFailed = "nil" <=> EndsBetweenTuples(failedJournal, 3)
        /\ report.decodeFailed # "nil" =>
             /\ \A t \in Tickets :
                   Len(successMap[t]) =
                       Occurrences(successJournal, SuccessTuple(t))
             /\ Len(workMap["time"]) = WorkOccurrences(workJournal)
             /\ report.total = Cardinality(workTickets(workMap))
             /\ report.successful >=
                  Cardinality({t \in Tickets :
                      Occurrences(successJournal, SuccessTuple(t)) > 0})

\* A failed journal cut after the time marker of its second tuple (state 1)
\* was decoded with an error, and the report covers the work and success
\* journals of the directory.
C18_Witness ==
    /\ verifyPc = "done"
    /\ report.decodeFailed = "decode cast votes"
    /\ report.decodeSuccess = "nil"
    /\ report.decodeWork = "nil"
    /\ \E t \in Tickets : failedMap[t] # <<>>
    /\ report.total >= 1
    /\ report.successful >= 1

\* ---------------------------------------------------------------- C19
\* The report verifyVote would print without ticket t among the work
\* tickets.
ReportWithout(t) ==
    ReportOf(workTickets(workMap) \ {t}, failedMap, successMap, cast,
             report.decodeFailed, report.decodeSuccess, report.decodeWork)

\* C19: a work ticket with failed-journal records and no success record that
\* the server shows as cast counts under completedNotRecorded and as a
\* successful vote, and is neither counted in 'Unsuccessful votes' nor
\* printed as FAILED.
C19_CastAfterFailuresIsSuccess ==
    verifyPc = "done" =>
        \A t \in workTickets(workMap) :
            (failedMap[t] # <<>> /\ successMap[t] = <<>> /\ t \in cast) =>
                /\ report.completedNotRecorded =
                     ReportWithout(t).completedNotRecorded + 1
                /\ report.successful = ReportWithout(t).successful + 1
                /\ report.unsuccessful = ReportWithout(t).unsuccessful
                /\ t \notin report.printedFailed

\* ---------------------------------------------------------------- C20
\* C20: every ticket is counted once: a work ticket with success-journal
\* records, one or several, in the server's cast set or not, adds exactly 1
\* to 'Successful votes' and nothing to 'Unsuccessful votes' or to
\* completedNotRecorded.
C20_CountedOnce ==
    verifyPc = "done" =>
        \A t \in workTickets(workMap) :
            successMap[t] # <<>> =>
                LET without ==
                        ReportOf(workTickets(workMap) \ {t}, failedMap,
                                 [successMap EXCEPT ![t] = <<>>], cast,
                                 report.decodeFailed, report.decodeSuccess,
                                 report.decodeWork)
                IN  /\ report.successful = without.successful + 1
                    /\ report.unsuccessful = without.unsuccessful
                    /\ report.completedNotRecorded =
                         without.completedNotRecorded
                    /\ t \notin report.printedFailed

\* A work ticket with two success records that the server also shows as
\* cast was reconciled.
C20_Witness ==
    /\ verifyPc = "done"
    /\ \E t \in workTickets(workMap) :
          /\ Len(successMap[t]) = 2
          /\ t \in cast
    /\ report.successful = 1

\* ---------------------------------------------------------------- C21
\* C21: the cross-check classifies every work ticket by its presence in the
\* success journal and in the failed journal: in both, an impossible
\* condition is reported; in the failed journal only and not in the server's
\* cast set, a failed vote is reported; in the success journal only, nothing
\* is reported; in neither, the ticket is reported as not seen.
C21_CrossCheckByJournals ==
    verifyPc = "done" =>
        \A t \in workTickets(workMap) :
            LET inSuccess == successMap[t] # <<>>
                inFailed == failedMap[t] # <<>>
            IN  /\ (inSuccess /\ inFailed) =>
                     report.crossCheck[t] = "impossible"
                /\ (~inSuccess /\ inFailed /\ t \notin cast) =>
                     report.crossCheck[t] = "failed"
                /\ (inSuccess /\ ~inFailed) =>
                     report.crossCheck[t] = "nothing"
                /\ (~inSuccess /\ ~inFailed) =>
                     report.crossCheck[t] = "not seen"

\* ---------------------------------------------------------------- C24
\* C24: of a request that could be built, makeRequest classifies every
\* outcome: a transport failure and every HTTP status other than 200 and
\* 400 return an ErrRetry, which carries the status code and the body when
\* there is a response; HTTP 400 with a UserErrorReply returns a plain
\* error; HTTP 200 returns the body with no error, and sendVote hands the
\* receipt to the engine even when it carries an error code.
C24_RequestClassified ==
    (requestPc = "done" /\ httpResponse.requestOk) =>
        /\ httpResponse.transport = "fail" =>
             /\ sendVoteReply.err = "ErrRetry"
             /\ sendVoteReply.outcome = "retry"
        /\ (httpResponse.transport = "ok"
              /\ httpResponse.status \notin {200, 400}) =>
             /\ sendVoteReply.err = "ErrRetry"
             /\ sendVoteReply.code = httpResponse.status
             /\ sendVoteReply.body = httpResponse.body
             /\ sendVoteReply.outcome = "retry"
        /\ (httpResponse.transport = "ok" /\ httpResponse.status = 400
              /\ httpResponse.body = UserErrorReply(1)) =>
             /\ sendVoteReply.err = "error"
             /\ sendVoteReply.outcome = "fatal"
        /\ (httpResponse.transport = "ok" /\ httpResponse.status = 200) =>
             /\ sendVoteReply.err = "nil"
             /\ sendVoteReply.body = httpResponse.body
             /\ \A c \in ReceiptCodes :
                   httpResponse.body = CastBallotReply(<<c>>) =>
                       sendVoteReply.outcome = c

\* A request answered 200 with a receipt that carries VoteStatusInvalid came
\* back without error.
C24_Witness ==
    /\ requestPc = "done"
    /\ httpResponse.requestOk
    /\ httpResponse.transport = "ok"
    /\ httpResponse.status = 200
    /\ httpResponse.body = CastBallotReply(<<"invalid">>)
    /\ sendVoteReply.err = "nil"
    /\ sendVoteReply.outcome = "invalid"

\* ---------------------------------------------------------------- C25
\* The committed tickets the wallet holds in an account below the imported
\* xpub account, in input order.
signable(tas, w) ==
    SelectSeq(tas, LAMBDA t : ~w[t.Ticket].err
                              /\ w[t.Ticket].AccountNumber < ImportedXpubAccount)

\* C25: eligibleVotes returns, in input order, exactly the committed tickets
\* that the wallet holds in an account with a number below 2^31-1 and that
\* have not already voted with a valid signature; a ticket listed as cast
\* with an invalid signature is included.
C25_EligibleExactly ==
    votePc \in {"shuffle", "returned"} =>
        eligible = SelectSeq(signable(ctres, wallet),
                             LAMBDA t : rr[t.Ticket] # "valid")

\* ---------------------------------------------------------------- C22
RECURSIVE SumOfDelays(_)
SumOfDelays(l) == IF l = <<>> THEN 0 ELSE Head(l).At + SumOfDelays(Tail(l))

\* The schedule has one interval per eligible ticket, in the order of the
\* tickets, and no negative delay.
OneIntervalPerTicket ==
    /\ Len(schedule) = Len(ctres)
    /\ \A k \in DOMAIN schedule :
          /\ schedule[k].Ticket = ctres[k].Ticket
          /\ schedule[k].At >= 0
    /\ voteIntervalQ =
          [k \in DOMAIN schedule |->
              [Ticket |-> schedule[k].Ticket, At |-> schedule[k].At]]

C23_DurationAtLeastOneHour ==
    blocks # NoBlocks =>
        \/ /\ votePc = "returned"
           /\ voteErr = "less than one hour left to vote"
        \/ /\ Leq32(blocks.bestBlock, blocks.EndBlockHeight)
           /\ Leq32(blocks.blocksPerHour, voteDuration)
           /\ Leq32(blocks.blocksPerHour,
                    Sub32(blocks.EndBlockHeight, blocks.bestBlock))
           /\ Leq32(voteDuration,
                    Sub32(Sub32(blocks.EndBlockHeight, blocks.bestBlock),
                          blocks.blocksPerHour))

\* ---------------------------------------------------------------- C28
IsPermutationOf(p, l) ==
    /\ Len(p) = Len(l)
    /\ \A x \in DOMAIN l :
          Cardinality({y \in DOMAIN p : p[y] = l[x]})
              = Cardinality({y \in DOMAIN l : l[y] = l[x]})

PermutationsOf(l) ==
    {p \in [DOMAIN l -> {l[x] : x \in DOMAIN l}] : IsPermutationOf(p, l)}

\* C28: the shuffle leaves a permutation of the list it was given, whatever
\* the draws, and every permutation of the list is the result of some
\* draws.
C28_ShufflePermutes ==
    [][(votePc = "shuffle" /\ votePc' = "sign") =>
          /\ IsPermutationOf(eligible', eligible)
          /\ \A p \in PermutationsOf(eligible) :
                \E d \in Draws(Len(eligible)) : shuffle(eligible, d) = p]_vars

\* The shuffle has left NumTickets tickets in descending order.
C28_Witness ==
    /\ votePc = "sign"
    /\ Len(eligible) = NumTickets
    /\ \A x \in DOMAIN eligible : eligible[x].Ticket = NumTickets + 1 - x

\* ---------------------------------------------------------------- C29
\* The signature of the message token||ticket||voteBit with the key of the
\* address of the ticket.
SignatureFor(ta) == [by |-> ta.Address, of |-> Message(ta.Ticket)]

\* C29: after the shuffle the ticket list, the sign replies and the votes
\* use the same index: the vote of the k-th ticket carries the signature
\* made for token||ticket_k||voteBit with the address of ticket k; and when
\* a sign reply holds an error _vote returns an error with no vote
\* scheduled or cast.
C29_SameIndex ==
    /\ votePc # "shuffle" => ctres = eligible
    /\ smr # <<>> =>
          /\ Len(smr) = Len(ctres)
          /\ \A k \in DOMAIN smr :
                smr[k].Error = "" => smr[k].Signature = SignatureFor(ctres[k])
    /\ \A k \in DOMAIN cv :
          /\ cv[k].Ticket = ctres[k].Ticket
          /\ cv[k].Signature = SignatureFor(ctres[k])
    /\ \A k \in DOMAIN schedule :
          /\ schedule[k].Ticket = ctres[k].Ticket
          /\ schedule[k].Signature = SignatureFor(ctres[k])
    /\ votePc \in {"returned", "_voteTrickler"} /\ voteErr = "none" =>
          Len(cv) + Len(schedule) = Len(ctres)
    /\ signatureFailed(smr) =>
          /\ votePc = "returned"
          /\ voteErr = "signature failed"
          /\ cv = <<>>
          /\ schedule = <<>>
          /\ voteIntervalQ = <<>>
          /\ ballotResults = <<>>

\* A ballot of NumTickets votes was sent after the shuffle moved the last
\* ticket to the front.
C29_Witness ==
    /\ votePc = "returned"
    /\ voteErr = "none"
    /\ Len(cv) = NumTickets
    /\ cv[1].Ticket = NumTickets
    /\ cv[1].Signature = SignatureFor(TicketAddress(NumTickets))

\* ---------------------------------------------------------------- C26
\* C26: the main loop submits the first vote it pops without waiting, and
\* every later vote only after the delay of that vote has passed since it
\* was popped; a wait ended by the cancellation or by retryLoopForceExit
\* ends the loop without a submission.
C26_SubmitAfterOwnDelay ==
    [][/\ (mainPc = "pop" /\ i = 0 /\ vote' # NoVote) =>
             (mainPc' = "vote" /\ elapsed' = 0)
       /\ (mainPc = "pop" /\ i > 0 /\ vote' # NoVote) =>
             (mainPc' = "wait" /\ elapsed' = 0)
       /\ (mainPc = "wait" /\ mainPc' = "vote") =>
             (elapsed' >= vote.At /\ vote' = vote)
       /\ (mainPc = "wait" /\ mainPc' \notin {"wait", "vote"}) =>
             /\ wctxDone \/ retryPc = "sendForceExit"
             /\ mainPc' = "returned"
             /\ mainSubmitted' = mainSubmitted
             /\ casts' = casts
       /\ mainSubmitted' # mainSubmitted =>
             /\ mainPc = "vote"
             /\ mainSubmitted' = mainSubmitted \cup {vote.Ticket}
             /\ i > 0 => elapsed >= vote.At]_vars

\* A later vote of the longest delay was submitted after that delay.
C26_Witness ==
    /\ mainPc = "inflight"
    /\ i > 0
    /\ vote.At = MaxDelay
    /\ elapsed = MaxDelay
    /\ vote.Ticket \in mainSubmitted

\* ---------------------------------------------------------------- C27
\* C27: the main loop submits the scheduled votes in the order in which
\* they were pushed on the interval queue, ticket 1 first, and submits each
\* of them at most once.
C27_FifoAtMostOnce ==
    [][(mainPc = "vote" /\ mainPc' = "inflight") =>
          /\ vote.Ticket \notin mainSubmitted
          /\ vote.Ticket = Cardinality(mainSubmitted) + 1
          /\ casts[vote.Ticket] = 0
          /\ mainSubmitted = 1..Cardinality(mainSubmitted)]_vars

\* The main loop has submitted every scheduled vote, the last one just now.
C27_Witness ==
    /\ mainPc = "inflight"
    /\ mainSubmitted = Tickets
    /\ vote.Ticket = NumTickets
    /\ i = NumTickets - 1

\* ---------------------------------------------------------------- C30
\* C30: once the cancellation has fired, no step of the main loop starts a
\* submission or appends to a journal or to the retry queue.
C30_NothingAfterCancel ==
    [][(wctxDone /\ mainPc' # mainPc) =>
          /\ mainSubmitted' = mainSubmitted
          /\ failedJournal' = failedJournal
          /\ successJournal' = successJournal
          /\ retryQ' = retryQ]_vars

\* ---------------------------------------------------------------- C35
\* C35: makeRequest returns a nil error only when the HTTP status is 200;
\* every response with another status returns an error, also an HTTP 400
\* whose body is no UserErrorReply or carries error code 0.
C35_NilOnlyOnStatusOK ==
    (requestPc = "done" /\ sendVoteReply.err = "nil") =>
        /\ httpResponse.requestOk
        /\ httpResponse.transport = "ok"
        /\ httpResponse.status = 200

MainSignals(sig) ==
    \/ sig \in signals
    \/ sig = "mainLoopDone" /\ mainPc = "sendDone"
    \/ sig = "mainLoopForceExit" /\ mainPc = "sendForceExit"

MainGotInvalidReceipt ==
    \E x \in DOMAIN ballotResults :
        /\ ballotResults[x].code = "invalid"
        /\ ballotResults[x].ticket \in mainSubmitted

\* C31: the main loop sends at most one control signal in a run:
\* mainLoopDone only after the interval queue is exhausted,
\* mainLoopForceExit only after a VoteStatusInvalid receipt, never both, and
\* neither when it exits on cancellation, on retryLoopForceExit or with an
\* error.
C31_AtMostOneSignal ==
    /\ [](~(MainSignals("mainLoopDone") /\ MainSignals("mainLoopForceExit")))
    /\ [](MainSignals("mainLoopDone") =>
              voteIntervalQ = <<>> /\ mainSubmitted = Tickets)
    /\ [](MainSignals("mainLoopForceExit") => MainGotInvalidReceipt)
    /\ [](mainExit \in {"cancel", "retryLoopForceExit", "journal", "fatal"} =>
              /\ ~MainSignals("mainLoopDone")
              /\ ~MainSignals("mainLoopForceExit"))
    /\ [][/\ (mainPc # "sendDone" /\ mainPc' = "sendDone") =>
                (mainPc = "pop" /\ voteIntervalQ = <<>>)
          /\ (mainPc # "sendForceExit" /\ mainPc' = "sendForceExit") =>
                mainPc = "inflight"]_vars

\* The main loop has sent mainLoopForceExit after a VoteStatusInvalid
\* receipt, with votes left in the interval queue.
C31_Witness ==
    /\ "mainLoopForceExit" \in signals
    /\ "mainLoopDone" \notin signals
    /\ mainPc = "returned"
    /\ MainGotInvalidReceipt
    /\ voteIntervalQ # <<>>

\* ---------------------------------------------------------------- C32
\* C32: with both loops scheduled fairly, every blocking send on
\* mainLoopDone, mainLoopForceExit and retryLoopForceExit is eventually
\* received, and _voteTrickler returns.
C32_NoDeadlock ==
    /\ (mainPc = "sendDone") ~> ("mainLoopDone" \in signals)
    /\ (mainPc = "sendForceExit") ~> ("mainLoopForceExit" \in signals)
    /\ (retryPc = "sendForceExit") ~> ("retryLoopForceExit" \in signals)
    /\ <>(mainPc = "returned")

\* ---------------------------------------------------------------- C33
\* C33: whenever _voteTrickler has returned, the retry loop has left, and
\* the results list and the queues that vote reads afterwards do not change
\* any more.
C33_RetryExitedAtReturn ==
    /\ [](mainPc = "returned" => RetryLeft)
    /\ [][mainPc = "returned" =>
            /\ ballotResults' = ballotResults
            /\ voteIntervalQ' = voteIntervalQ
            /\ retryQ' = retryQ]_vars


\* ---------------------------------------------------------------------
\* Failed journal round trip (809-833, 1165-1239)
\* ---------------------------------------------------------------------

\* Only the main loop has written the failed journal, and every jsonLog
\* call of it completed: the retry loop sent nothing, no write failed.
OnlyMainWroteFailed ==
    /\ \A t \in Tickets : casts[t] <= 1
    /\ mainExit # "journal"
    /\ mainPc # "inflight"

\* The number of tuples the main loop wrote into the failed journal for t.
TuplesWritten(t) ==
    failedAttempts[t]
      + Cardinality({x \in DOMAIN ballotResults :
                        /\ ballotResults[x].ticket = t
                        /\ ballotResults[x].code = "invalid"})

\* C34: every failed journal written by the main loop alone, with every
\* write complete, is decoded by decodeFailed without error, and each tuple
\* written (an ErrRetry failure or a VoteStatusInvalid receipt) yields
\* exactly one entry under its ticket.
C34_FailedJournalRoundTrip ==
    OnlyMainWroteFailed =>
        LET d == decodeFailed(failedJournal, NoRecords) IN
        /\ d.err = "nil"
        /\ \A t \in Tickets : Len(d.map[t]) = TuplesWritten(t)

====
